---- MODULE Spec2Model ----
(***************************************************************************)
(* pypg: type registry (type_registry.py, type_utils.py), locator          *)
(* (locator.py), the object-graph transcoder (transcode.py,                *)
(* property_transcoder.py) and the traits (traits/observable.py,           *)
(* traits/overridable.py, traits/reference_counted.py).                    *)
(***************************************************************************)
EXTENDS Integers, Sequences, FiniteSets, TLC

VARIABLES
    treg,       \* a TypeRegistry: the dict's items, in insertion order
    lookup,     \* the last lookup made on treg and what it gave
    loc,        \* a Locator: its load policy and its allow-list (name -> type)
    resolved,   \* the last call of the Locator and what it gave
    passed,     \* history: the types given to Locator(...) and allow(), in order
    lastDenied, \* history: the name of the last call that raised PermissionError
    heap,       \* the objects a program has created, by address
    phase,      \* "build", then "encoded" after encode(), "decoded" after decode()
    root,       \* the object given to encode()
    enc,        \* what encode() gave: exception or payload, entry table, identifiers
    dec,        \* what decode() gave: exception or value, the copies, the cache
    registries, \* Encoder._registry and Decoder._registry
    handler_overrides, \* the overrides mapping of the program, as the last call left it
    resolving,  \* the last call of _resolve_handler and what it gave
    canceled,          \* AsynchronousDelivery._canceled
    data_lock,         \* AsynchronousDelivery._data_lock: the thread that holds it
    data_queue,        \* AsynchronousDelivery._data_queue
    delivery_thread,   \* AsynchronousDelivery._delivery_thread
    queue_empty_event, \* AsynchronousDelivery._queue_empty_event: its flag
    observer,          \* the update policy (its _last) and the values on_update raises on
    updating,          \* the threads that call update(): where each is
    delivering,        \* the threads started on _deliver_queue: where each is
    posted,            \* history: the items appended by update(), in order
    handed,            \* history: the calls of requires_update, on_update, on_error
    returned,          \* history: the items whose update() has returned
    awaited,           \* the last await_delivery and what it gave
    target_attr,    \* the trait's attribute of the override target's name
    scope_locks,    \* Override._locks: scope -> (lock, count)
    rlocks,         \* the RLock objects made: owner and depth of each
    override_objs,  \* the Override objects made: kind, scope, _thread_id
    ovthreads,      \* the threads: the scopes each is in, what is left of its
                    \* __enter__ or __exit__, the locals lock and count
    called,         \* the last call of the trait's method and what it ran
    instance_dict,  \* the composers' __dict__: instance -> property -> value
    composers,      \* ReferenceCounted.__composers of each counted object
    unreferenced,   \* history: the calls of _on_unreferenced
    assigned        \* the last property assignment and what it gave

regVars == <<treg, lookup>>
locVars == <<loc, resolved, passed, lastDenied>>
tcVars == <<heap, phase, root, enc, dec>>
rhVars == <<registries, handler_overrides, resolving>>
adVars == <<canceled, data_lock, data_queue, delivery_thread, queue_empty_event, observer,
            updating, delivering, posted, handed, returned, awaited>>
ovVars == <<target_attr, scope_locks, rlocks, override_objs, ovthreads, called>>
rcVars == <<instance_dict, composers, unreferenced, assigned>>
trVars == <<adVars, ovVars, rcVars>>
vars == <<treg, lookup, loc, resolved, passed, lastDenied, heap, phase, root, enc, dec,
          registries, handler_overrides, resolving, trVars>>

-----------------------------------------------------------------------------
(* Bounds *)

\* most keys a TypeRegistry of SpecRegistry holds
MaxKeys == 2

\* most types given to one Locator of SpecLocator (constructor and allow together)
MaxAllowed == 2

\* most items, entries and property values a program of Spec stores into its
\* objects altogether
MaxSlots == 3

\* most entries of the overrides mapping of SpecResolve
MaxOverrides == 2

-----------------------------------------------------------------------------
(* The classes of the runtime: __bases__ of each, in declaration order.    *)

Bases ==
    [ object |-> <<>>,
      int |-> <<"object">>, bool |-> <<"int">>, str |-> <<"object">>,
      float |-> <<"object">>, NoneType |-> <<"object">>,
      list |-> <<"object">>, tuple |-> <<"object">>, set |-> <<"object">>,
      dict |-> <<"object">>, type |-> <<"object">>,
      function |-> <<"object">>, method |-> <<"object">>,
      Enum |-> <<"object">>, E |-> <<"Enum">>,
      ObjectReference |-> <<"object">>,
      PropertyClass |-> <<"object">>, TestClass |-> <<"PropertyClass">>,
      LocalType |-> <<"TestClass">>, CallableTest |-> <<"PropertyClass">>,
      Foo |-> <<"object">>, Bar |-> <<"Foo">>, Foo2 |-> <<"object">>,
      Base |-> <<"object">>, A |-> <<"Base">>, B |-> <<"Base">>,
      DA |-> <<"A">>, DDA |-> <<"DA">>,
      M |-> <<"A", "B">>, DM |-> <<"DDA", "M">> ]

Types == DOMAIN Bases

\* a parameterized generic (list[int]): not a class; typing.get_origin gives list
GenericAliases == {"list[int]"}

\* what is not a class at all (None handed in where a class is expected)
NotAClass == "None"

get_origin(t) == IF t \in GenericAliases THEN "list" ELSE NotAClass

RECURSIVE SeqToSet(_)
SeqToSet(s) == IF s = <<>> THEN {} ELSE {Head(s)} \cup SeqToSet(Tail(s))

\* issubclass(t, other) for classes t and other
RECURSIVE issubclass(_, _)
issubclass(t, other) ==
    \/ t = other
    \/ \E i \in 1..Len(Bases[t]) : issubclass(Bases[t][i], other)

-----------------------------------------------------------------------------
(* type_utils.py *)

\* hierarchy without the recursion into the bases: the direct bases alone
hierarchy_direct_bases(t) == Bases[t]

RECURSIVE hierarchy(_)
RECURSIVE hierarchyOfEach(_)
hierarchyOfEach(bs) ==
    IF bs = <<>> THEN <<>> ELSE hierarchy(Head(bs)) \o hierarchyOfEach(Tail(bs))

\* def hierarchy(t): every base's hierarchy, then the bases themselves
hierarchy(t) ==
    IF Bases[t] # <<>> THEN hierarchyOfEach(Bases[t]) \o Bases[t] ELSE <<>>

\* unbind_generics, for one type: get_origin(t) or t
unbind_generics(t) == IF get_origin(t) # NotAClass THEN get_origin(t) ELSE t

hierarchyLen(other) == Len(hierarchy(other))

\* max without its key: the first relative, whatever its hierarchy
max_by_hierarchy_first(s) == s[1]

\* max that gives the last element with the greatest key, not the first
max_by_hierarchy_last(s) ==
    s[CHOOSE i \in 1..Len(s) :
        /\ \A j \in 1..Len(s) : hierarchyLen(s[i]) >= hierarchyLen(s[j])
        /\ \A j \in (i + 1)..Len(s) : hierarchyLen(s[i]) > hierarchyLen(s[j])]

\* min in the place of max: a relative with the shortest hierarchy
max_by_hierarchy_min(s) ==
    s[CHOOSE i \in 1..Len(s) : \A j \in 1..Len(s) : hierarchyLen(s[i]) <= hierarchyLen(s[j])]

\* max(relatives, key=lambda other: len([*hierarchy(other)])): python's max gives
\* the first element with the greatest key
RECURSIVE max_by_hierarchy(_)
max_by_hierarchy(s) ==
    IF Len(s) = 1 THEN s[1]
    ELSE LET rest == max_by_hierarchy(Tail(s))
         IN  IF hierarchyLen(Head(s)) >= hierarchyLen(rest) THEN Head(s) ELSE rest

\* find_closest_relative(t, *others): [exc, val]; val = NotAClass is None
find_closest_relative(t0, others0) ==
    LET t == unbind_generics(t0)
        others == [i \in 1..Len(others0) |-> unbind_generics(others0[i])]
    IN  IF others = <<>> THEN [exc |-> "", val |-> NotAClass]
        ELSE IF t \notin Types THEN [exc |-> "TypeError", val |-> NotAClass]
        ELSE LET IsRel(other) == issubclass(t, other)
                 relatives == SelectSeq(others, IsRel)
             IN  IF relatives = <<>> THEN [exc |-> "", val |-> NotAClass]
                 ELSE [exc |-> "", val |-> max_by_hierarchy(relatives)]

-----------------------------------------------------------------------------
(* A dict is the sequence of its [key, value] items, in insertion order.    *)

NoHandler == "-"

RegKeys(reg) == [i \in 1..Len(reg) |-> reg[i].key]

HasKey(reg, k) == \E i \in 1..Len(reg) : reg[i].key = k

ItemOf(reg, k) == reg[CHOOSE i \in 1..Len(reg) : reg[i].key = k]

\* dict.__getitem__: [exc, key, handler] and reg, the dict as the call leaves it
dict_getitem(reg, k) ==
    IF HasKey(reg, k)
    THEN [exc |-> "", key |-> k, handler |-> ItemOf(reg, k).value, reg |-> reg]
    ELSE [exc |-> "KeyError", key |-> NotAClass, handler |-> NoHandler, reg |-> reg]

\* dict.__setitem__: a present key keeps its place
dict_setitem(reg, k, h) ==
    IF HasKey(reg, k)
    THEN [i \in 1..Len(reg) |-> IF reg[i].key = k THEN [key |-> k, value |-> h] ELSE reg[i]]
    ELSE Append(reg, [key |-> k, value |-> h])

dict_pop(reg, k) == LET Keep(it) == it.key # k IN SelectSeq(reg, Keep)

NoBase == NotAClass

\* find_closest_relative that compares with every key, whatever the base
TypeRegistry_find_closest_relative_any_base(reg, t, constraining_base) ==
    find_closest_relative(t, RegKeys(reg))

\* TypeRegistry.find_closest_relative(t, constraining_base)
TypeRegistry_find_closest_relative(reg, t, constraining_base) ==
    LET InBase(t_i) == issubclass(t_i, constraining_base)
        types_to_compare ==
            IF constraining_base # NoBase THEN SelectSeq(RegKeys(reg), InBase)
            ELSE RegKeys(reg)
    IN  find_closest_relative(t, types_to_compare)

\* a lookup that remembers what it found: the candidate is registered with the
\* handler of its closest relative
TypeRegistry_getitem_slice_caching(reg, start, stop) ==
    LET found == TypeRegistry_find_closest_relative(reg, start, stop)
        got == dict_getitem(reg, found.val)
    IN  IF found.exc = "TypeError"
        THEN [exc |-> "TypeError", key |-> NotAClass, handler |-> NoHandler, reg |-> reg]
        ELSE IF got.exc # "" THEN got
        ELSE [got EXCEPT !.reg = dict_setitem(reg, start, got.handler)]

\* TypeRegistry.__getitem__(slice(start, stop))
TypeRegistry_getitem_slice(reg, start, stop) ==
    LET found == TypeRegistry_find_closest_relative(reg, start, stop)
    IN  IF found.exc = "TypeError"
        THEN [exc |-> "TypeError", key |-> NotAClass, handler |-> NoHandler, reg |-> reg]
        ELSE dict_getitem(reg, found.val)

\* TypeRegistry.__getitem__(item), item not a slice
TypeRegistry_getitem(reg, item) == dict_getitem(reg, item)

-----------------------------------------------------------------------------
(* type_utils.get_fully_qualified_name *)

BuiltinTypes == {"object", "int", "bool", "str", "float", "NoneType", "list",
                 "tuple", "set", "dict", "type", "function", "method"}

\* the module-level functions
Functions == {"free_function"}

\* t.__module__
ModuleOf(t) ==
    CASE t \in BuiltinTypes -> "builtins"
      [] t = "Enum" -> "enum"
      [] t = "ObjectReference" -> "pypg.transcode"
      [] t = "PropertyClass" -> "pypg.property"
      [] t \in {"E", "TestClass", "LocalType", "CallableTest", "free_function"} ->
            "tests.test_transcoder"
      [] t \in {"Foo", "Bar", "Foo2"} -> "tests.test_locator"
      [] OTHER -> "tests.test_type_registry"

\* t.__qualname__; Foo2 is a second class defined under Foo's name, LocalType a
\* class defined inside a function
QualnameOf(t) ==
    CASE t = "ObjectReference" -> "_ObjectReference"
      [] t = "E" -> "EnumTest.E"
      [] t = "Foo2" -> "Foo"
      [] t = "LocalType" -> "TranscoderTest.test_invalid_type_decoding.<locals>.LocalType"
      [] OTHER -> t

get_fully_qualified_name(t) ==
    IF ModuleOf(t) = "builtins" THEN QualnameOf(t)
    ELSE ModuleOf(t) \o "." \o QualnameOf(t)

-----------------------------------------------------------------------------
(* locator.py *)

\* the classes pydoc.locate can reach by name: module-level and nested ones that
\* are bound under their own name; NoneType, function and method are in no
\* module's namespace
Locatable == Types \ {"NoneType", "function", "method", "LocalType", "Foo2", "DM"}

\* something pydoc.locate finds that is no class
ModuleObject == "<module 'os'>"

\* pydoc.locate(name): the object of that name, None when there is none
locate(name) ==
    IF \E t \in Locatable \cup Functions : get_fully_qualified_name(t) = name
    THEN CHOOSE t \in Locatable \cup Functions : get_fully_qualified_name(t) = name
    ELSE IF name = "os" THEN ModuleObject ELSE NotAClass

\* strict without its denial: an unlisted name goes to the ordinary lookup
strict_falls_back(typedict, fully_qualified_name) ==
    IF HasKey(typedict, fully_qualified_name)
    THEN [exc |-> "", val |-> ItemOf(typedict, fully_qualified_name).value]
    ELSE [exc |-> "", val |-> locate(fully_qualified_name)]

\* def strict(typedict, fully_qualified_name); _disallow raises PermissionError
strict(typedict, fully_qualified_name) ==
    IF HasKey(typedict, fully_qualified_name)
    THEN [exc |-> "", val |-> ItemOf(typedict, fully_qualified_name).value]
    ELSE [exc |-> "PermissionError", val |-> NotAClass]

\* allow_subclass that admits the allow-listed classes themselves only
allow_subclass_exact(typedict, fully_qualified_name) ==
    LET t == locate(fully_qualified_name)
    IN  IF typedict = <<>> THEN [exc |-> "", val |-> NotAClass]
        ELSE IF t \notin Types THEN [exc |-> "TypeError", val |-> NotAClass]
        ELSE IF \E i \in 1..Len(typedict) : t = typedict[i].value
             THEN [exc |-> "", val |-> t]
             ELSE [exc |-> "", val |-> NotAClass]

\* def allow_subclass(typedict, fully_qualified_name): issubclass raises
\* TypeError on the first allowed type when t is no class; with nothing to
\* iterate, or no match, the function falls off its end and returns None
allow_subclass(typedict, fully_qualified_name) ==
    LET t == locate(fully_qualified_name)
    IN  IF typedict = <<>> THEN [exc |-> "", val |-> NotAClass]
        ELSE IF t \notin Types THEN [exc |-> "TypeError", val |-> NotAClass]
        ELSE IF \E i \in 1..Len(typedict) : issubclass(t, typedict[i].value)
             THEN [exc |-> "", val |-> t]
             ELSE [exc |-> "", val |-> NotAClass]

\* _special_cases
special_cases ==
    <<[key |-> get_fully_qualified_name("NoneType"), value |-> "NoneType"],
      [key |-> get_fully_qualified_name("function"), value |-> "function"],
      [key |-> get_fully_qualified_name("method"), value |-> "method"]>>

Policies == {"none", "strict", "allow_subclass"}

RECURSIVE allow_each(_, _)
allow_each(d, ts) ==
    IF ts = <<>> THEN d
    ELSE allow_each(dict_setitem(d, get_fully_qualified_name(Head(ts)), Head(ts)), Tail(ts))

\* Locator.__init__(*allowed, load_policy)
Locator_init(allowed, load_policy) ==
    [load_policy |-> load_policy, allowed |-> allow_each(<<>>, allowed)]

\* allow that forgets the type
Locator_allow_noop(l, t) == l

\* Locator.allow(t)
Locator_allow(l, t) ==
    [l EXCEPT !.allowed = dict_setitem(l.allowed, get_fully_qualified_name(t), t)]

\* __call__ as it was before _special_cases: not-found for every unlocatable name
Locator_call_no_special_cases(l, fully_qualified_name) ==
    CASE l.load_policy = "strict" -> strict(l.allowed, fully_qualified_name)
      [] l.load_policy = "allow_subclass" -> allow_subclass(l.allowed, fully_qualified_name)
      [] OTHER ->
            LET result == locate(fully_qualified_name)
            IN  IF result = NotAClass THEN [exc |-> "TypeError", val |-> NotAClass]
                ELSE [exc |-> "", val |-> result]

\* Locator.__call__(fully_qualified_name)
Locator_call(l, fully_qualified_name) ==
    CASE l.load_policy = "strict" -> strict(l.allowed, fully_qualified_name)
      [] l.load_policy = "allow_subclass" -> allow_subclass(l.allowed, fully_qualified_name)
      [] OTHER ->
            LET result == locate(fully_qualified_name)
            IN  IF result = NotAClass
                THEN IF HasKey(special_cases, fully_qualified_name)
                     THEN [exc |-> "", val |-> ItemOf(special_cases, fully_qualified_name).value]
                     ELSE [exc |-> "TypeError", val |-> NotAClass]
                ELSE [exc |-> "", val |-> result]

-----------------------------------------------------------------------------
(* Python values. A value is a record [k, t, n, v]:                        *)
(*   "prim"  a str/int/float/bool/None literal of type t, numbered v;      *)
(*   "type"  the class n, as a value;   "enum"  the member n of enum t;    *)
(*   "ref"   the object at address v of the heap;                          *)
(*   "temp"  the short-lived _ObjectReference at temporary address v;      *)
(*   "func"  the module-level function n;                                  *)
(*   "method" the bound method n of the object at address v.               *)
(* Equal literals, classes, enum members, functions and bound methods are  *)
(* one object each.                                                        *)

Prim(t, v) == [k |-> "prim", t |-> t, n |-> "", v |-> v]
TypeVal(c) == [k |-> "type", t |-> "type", n |-> c, v |-> 0]
EnumVal(c, m) == [k |-> "enum", t |-> c, n |-> m, v |-> 0]
Ref(a) == [k |-> "ref", t |-> "", n |-> "", v |-> a]
Temp(a) == [k |-> "temp", t |-> "ObjectReference", n |-> "", v |-> a]
FuncVal(f) == [k |-> "func", t |-> "function", n |-> f, v |-> 0]
Method(a, f) == [k |-> "method", t |-> "method", n |-> f, v |-> a]
NoneVal == Prim("NoneType", 0)
NoValue == [k |-> "", t |-> "", n |-> "", v |-> 0]

\* a heap object: its class, its items in order, and for a dict its keys
Obj(t, keys, items) == [t |-> t, keys |-> keys, items |-> items]

\* type(obj)
TypeOf(h, obj) == IF obj.k = "ref" THEN h[obj.v].t ELSE obj.t

\* primitives = (str, int, float, bool, NoneType)
primitives == <<"str", "int", "float", "bool", "NoneType">>

\* the members of the enum classes
EnumMembers(c) == IF c = "E" THEN {"A", "B", "C"} ELSE {}

\* type(obj).properties of a PropertyClass
PropertiesOf(c) ==
    IF issubclass(c, "TestClass") THEN <<"a", "c">>
    ELSE IF issubclass(c, "CallableTest") THEN <<"delegate">>
    ELSE <<>>

\* the traits of a property: none of these properties has a Config trait
TraitsOf(c, p) == {}

\* Config.has_config_data(p), for a property whose value type has no properties
has_config_data(c, p) == "Config" \in TraitsOf(c, p)

\* the methods a class defines
MethodsOf(c) == IF issubclass(c, "CallableTest") THEN {"some_method"} ELSE {}

\* the objects of the runtime a program holds as values, in a fixed order
Named == <<"Foo", "free_function", "A", "B", "C">>

IndexIn(seq, x) == CHOOSE i \in 1..Len(seq) : seq[i] = x

-----------------------------------------------------------------------------
(* Payloads: [tn, tracked, id, body]; body is [shape, lit, a, rows, s,     *)
(* names, n], of which the shape says which field carries the handler data *)

Body(shape, lit, a, rows, str, names, n) ==
    [shape |-> shape, lit |-> lit, a |-> a, rows |-> rows, s |-> str,
     names |-> names, n |-> n]

LitBody(v) == Body("lit", v, <<>>, <<>>, "", <<>>, 0)
ListBody(ps) == Body("list", NoValue, ps, <<>>, "", <<>>, 0)
RowsBody(rows) == Body("rows", NoValue, <<>>, rows, "", <<>>, 0)
StrBody(str) == Body("str", NoValue, <<>>, <<>>, str, <<>>, 0)
FieldsBody(names, ps) == Body("fields", NoValue, ps, <<>>, "", names, 0)
IntBody(n) == Body("int", NoValue, <<>>, <<>>, "", <<>>, n)
MethodBody(ps, name) == Body("method", NoValue, ps, <<>>, name, <<>>, 0)

\* [type-name, body]
Untracked(tn, body) == [tn |-> tn, tracked |-> FALSE, id |-> 0, body |-> body]
\* [type-name, (body, identifier)]
Tracked(tn, body, id) == [tn |-> tn, tracked |-> TRUE, id |-> id, body |-> body]

NoPayload == Untracked("", LitBody(NoValue))

\* [*zip(*pairs)] for pairs of two: the firsts, then the seconds; nothing for no pair
zip_star(pairs) ==
    IF pairs = <<>> THEN <<>>
    ELSE <<[i \in 1..Len(pairs) |-> pairs[i][1]], [i \in 1..Len(pairs) |-> pairs[i][2]]>>

Min2(x, y) == IF x <= y THEN x ELSE y

\* zip(*rows) for two rows: the pairs, as far as the shorter row goes
zip_rows(rows) ==
    IF Len(rows) < 2 THEN <<>>
    ELSE [i \in 1..Min2(Len(rows[1]), Len(rows[2])) |-> <<rows[1][i], rows[2][i]>>]

-----------------------------------------------------------------------------
(* transcode.py: handler registration (__init_subclass__) and resolution   *)

RECURSIVE register_each(_, _, _)
\* cls._registry.update({t: cls for t in handler_for})
register_each(reg, handler_for, cls) ==
    IF handler_for = <<>> THEN reg
    ELSE register_each(dict_setitem(reg, Head(handler_for), cls), Tail(handler_for), cls)

RECURSIVE register_all(_, _)
\* reg.update(mapping)
register_all(reg, mapping) ==
    IF mapping = <<>> THEN reg
    ELSE register_all(dict_setitem(reg, Head(mapping).key, Head(mapping).value), Tail(mapping))

\* Encoder._registry once transcode.py and property_transcoder.py are imported
EncoderRegistry ==
    LET r1 == register_each(<<>>, primitives, "PrimitiveEncoder")
        r2 == register_each(r1, <<"ObjectReference">>, "ObjectReferenceEncoder")
        r3 == register_each(r2, <<"type", "function">>, "TypeEncoder")
        r4 == register_each(r3, <<"tuple", "set", "list">>, "CollectionEncoder")
        r5 == register_each(r4, <<"dict">>, "DictEncoder")
        r6 == register_each(r5, <<"Enum">>, "EnumEncoder")
        r7 == register_each(r6, <<"method">>, "MethodEncoder")
    IN  register_each(r7, <<"PropertyClass">>, "PropertyClassEncoder")

\* Decoder._registry once transcode.py and property_transcoder.py are imported
DecoderRegistry ==
    LET r0 == register_each(<<>>, primitives, "Decoder")
        r1 == register_each(r0, primitives, "PrimitiveDecoder")
        r2 == register_each(r1, <<"ObjectReference">>, "ObjectReferenceDecoder")
        r3 == register_each(r2, <<"NoneType">>, "NoneTypeDecoder")
        r4 == register_each(r3, <<"type", "function">>, "TypeDecoder")
        r5 == register_each(r4, <<"tuple", "set", "list">>, "CollectionDecoder")
        r6 == register_each(r5, <<"dict">>, "DictDecoder")
        r7 == register_each(r6, <<"Enum">>, "EnumDecoder")
        r8 == register_each(r7, <<"method">>, "MethodDecoder")
    IN  register_each(r8, <<"PropertyClass">>, "PropertyClassDecoder")

\* TypeRegistry(overrides): a registry of its own with the items of the mapping
TypeRegistry_init(mapping) == mapping

\* what _resolve_handler gives: the lookup's [exc, key, handler], and the class
\* registry and the overrides mapping as the call leaves them
resolution(registry, overrides, found) ==
    [exc |-> found.exc, key |-> found.key, handler |-> found.handler,
     registry |-> registry, overrides |-> overrides]

\* return cls[obj_type]: cls._registry[obj_type:]
registered(overrides, found) == resolution(found.reg, overrides, found)

\* _resolve_handler past the overrides: except KeyError: pass; return cls[obj_type]
override_or_registered(registry, obj_type, overrides, over) ==
    IF over.exc = "KeyError"
    THEN registered(overrides, TypeRegistry_getitem_slice(registry, obj_type, NoBase))
    ELSE resolution(registry, overrides, over)

\* _resolve_handler that asks the class registry first and the overrides last
resolve_handler_registry_first(registry, obj_type, overrides) ==
    override_or_registered(TypeRegistry_init(overrides), obj_type, overrides,
                           TypeRegistry_getitem_slice(registry, obj_type, NoBase))

\* _resolve_handler that keeps the overrides: cls._registry.update(overrides)
resolve_handler_registering(registry, obj_type, overrides) ==
    registered(overrides,
               TypeRegistry_getitem_slice(register_all(registry, overrides), obj_type, NoBase))

\* _Transcoder._resolve_handler(obj_type, overrides)
resolve_handler(registry, obj_type, overrides) ==
    IF overrides = <<>>
    THEN registered(overrides, TypeRegistry_getitem_slice(registry, obj_type, NoBase))
    ELSE override_or_registered(registry, obj_type, overrides,
             TypeRegistry_getitem_slice(TypeRegistry_init(overrides), obj_type, NoBase))

\* a counter that gives every call the next number
MonotonicID_call_counting(objects, obj) ==
    [objects |-> Append(objects, [key |-> obj, value |-> Len(objects)]), id |-> Len(objects)]

\* MonotonicID.__call__(obj): objects is keyed by id(obj)
MonotonicID_call(objects, obj) ==
    IF HasKey(objects, obj)
    THEN [objects |-> objects, id |-> ItemOf(objects, obj).value]
    ELSE [objects |-> dict_setitem(objects, obj, Len(objects)), id |-> Len(objects)]

\* id(obj): the address of the object, one number for every object alive
builtin_id(obj) ==
    CASE obj.k = "ref" -> obj.v
      [] obj.k = "temp" -> 100 + obj.v
      [] obj.k = "method" -> 200 + obj.v
      [] obj.k \in {"enum", "type", "func"} -> 300 + IndexIn(Named, obj.n)
      [] OTHER -> 400 + 10 * IndexIn(primitives, obj.t) + obj.v

\* the identity providers a program passes to encode: None (a MonotonicID of
\* the call's own) and the builtin id
IdProviders == {"MonotonicID", "id"}

-----------------------------------------------------------------------------
(* The trace of a call tree: what was called, in order. An event is         *)
(* [ev, obj, h, s, t, n, m, exc]:                                           *)
(*   "resolve"  _resolve_handler(t) gave the handler class h, or raised exc *)
(*   "get_id"   get_id(obj) gave n; m tells the _ObjectReference objects    *)
(*              that took one address apart                                 *)
(*   "body"     the _encode or _decode of handler class h was entered, for  *)
(*              obj, or for an entry of type name s, type t, identifier n   *)
(*   "locate"   the Locator was called with the name s and gave t, or       *)
(*              raised exc                                                  *)
(*   "unpack"   _unpack gave the type t for the name s                      *)
(*   "raise"    exc was raised in the handler class h                       *)
(*   "store"    self.data[n] was assigned the entry of a full body          *)
(*   "hit"      decoded_objects[n] was there and gave obj                   *)
(*   "cache"    decoded_objects[n] was assigned obj                         *)

Event(ev, obj, h, s, t, n, m, exc) ==
    [ev |-> ev, obj |-> obj, h |-> h, s |-> s, t |-> t, n |-> n, m |-> m, exc |-> exc]

logged(st, e) == [st EXCEPT !.trace = Append(@, e)]

raised(st, h, exc) == logged(st, Event("raise", NoValue, h, "", "", 0, 0, exc))

-----------------------------------------------------------------------------
(* transcode.py: Encoder. The state threaded through one encode call tree: *)
(*   data        the shared entry table (identifier -> entry)              *)
(*   id_provider the identity provider of the call tree                    *)
(*   objects     MonotonicID.objects (id(obj) -> identifier)               *)
(*   temps       the _ObjectReference objects made so far, by address: the *)
(*               object each wraps, whether it is still alive, and its     *)
(*               number among those made                                   *)
(*   reuse       whether the allocator hands a freed address out again     *)
(*   depth       the number of Encoder constructions on the call stack     *)
(*   registry    Encoder._registry                                         *)
(*   overrides   the overrides mapping handed down the call tree           *)
(*   trace       the events so far                                         *)
(* Every operator gives [st, exc, ...]: exc is the exception raised, or "" *)

\* nested Encoder or Decoder constructions the interpreter's stack has room for
RecursionLimit == MaxSlots + 2

EncFail(st, exc) == [st |-> st, exc |-> exc, payload |-> NoPayload, id |-> 0]

\* the address a new _ObjectReference gets: any freed one when the allocator
\* reuses, else one never used before
alloc_temp(st) ==
    LET free == {i \in 1..Len(st.temps) : ~st.temps[i].live}
    IN  IF st.reuse /\ free # {} THEN CHOOSE i \in free : \A j \in free : i <= j
        ELSE Len(st.temps) + 1

\* _ObjectReference.__init__(obj): a reference to a reference is unwrapped
ObjectReference_init(st, obj) ==
    LET a == alloc_temp(st)
        target == IF obj.k = "temp" THEN st.temps[obj.v].target ELSE obj
        cell == [live |-> TRUE, target |-> target, serial |-> st.made + 1]
    IN  [st |-> [st EXCEPT !.temps = IF a > Len(st.temps) THEN Append(st.temps, cell)
                                     ELSE [st.temps EXCEPT ![a] = cell],
                           !.made = @ + 1],
         ref |-> Temp(a)]

release_temp(st, ref) == [st EXCEPT !.temps[ref.v].live = FALSE]

\* which of the objects that had its address the object is
InstanceOf(st, obj) == IF obj.k = "temp" THEN st.temps[obj.v].serial ELSE 0

\* self.get_id(obj): [objects, id]
get_id(st, obj) ==
    IF st.id_provider = "id" THEN [objects |-> st.objects, id |-> builtin_id(obj)]
    ELSE MonotonicID_call(st.objects, obj)

\* the call tree after get_id(obj) gave got
identified(st, obj, got) ==
    logged([st EXCEPT !.objects = got.objects],
           Event("get_id", obj, "", "", "", got.id, InstanceOf(st, obj), ""))

RECURSIVE Encoder(_, _, _)
RECURSIVE Encoder_encode(_, _, _, _)
RECURSIVE encode_each(_, _, _)

\* the payloads of a comprehension: the first item's before the others'
payloads_after(first, rest) ==
    [st |-> rest.st, exc |-> rest.exc, ps |-> <<first.payload>> \o rest.ps]

\* a comprehension that leaves out the item whose Encoder raised, and goes on
encode_rest_skipping(h, items, first) ==
    IF first.exc # "" THEN encode_each(h, items, first.st)
    ELSE payloads_after(first, encode_each(h, items, first.st))

\* the comprehension after its first item: an exception ends it
encode_rest(h, items, first) ==
    IF first.exc # "" THEN [st |-> first.st, exc |-> first.exc, ps |-> <<>>]
    ELSE payloads_after(first, encode_each(h, items, first.st))

\* [Encoder(item, self, self.overrides).obj_data for item in items]
encode_each(h, items, st) ==
    IF items = <<>> THEN [st |-> st, exc |-> "", ps |-> <<>>]
    ELSE encode_rest(h, Tail(items), Encoder(h, Head(items), st))

\* [get_fully_qualified_name(obj_type), self._encode(obj)], e what _encode gave
primitive_data(h, obj, e) ==
    [st |-> e.st, exc |-> e.exc, id |-> 0,
     payload |-> IF e.exc # "" THEN NoPayload
                 ELSE Untracked(get_fully_qualified_name(TypeOf(h, obj)), e.body)]

\* PrimitiveEncoder._pack (TypeEncoder inherits it): no entry in the table
PrimitiveEncoder_pack(handler, h, obj, st) ==
    primitive_data(h, obj, Encoder_encode(handler, h, obj, st))

\* self.data[self.obj_id] = encoded_data; return encoded_data
record_entry(obj_id, e, encoded_data) ==
    IF e.exc # "" THEN EncFail(e.st, e.exc)
    ELSE [st |-> logged([e.st EXCEPT !.data = dict_setitem(e.st.data, obj_id, encoded_data)],
                        Event("store", NoValue, "", "", "", obj_id, 0, "")),
          exc |-> "", payload |-> encoded_data, id |-> obj_id]

\* encoded_data = [name, (self._encode(obj), self.obj_id)], e what _encode gave
pack_body(h, obj, obj_id, e) ==
    record_entry(obj_id, e, Tracked(get_fully_qualified_name(TypeOf(h, obj)), e.body, obj_id))

\* _pack without the look into the entry table: a full body at every encounter
Encoder_pack_always_body(handler, h, obj, obj_id, st) ==
    pack_body(h, obj, obj_id, Encoder_encode(handler, h, obj, st))

\* the _ObjectReference is garbage once its Encoder has returned
drop_reference(made, r) == [r EXCEPT !.st = release_temp(r.st, made.ref)]

\* Encoder(_ObjectReference(obj), self, self.overrides).obj_data
pack_reference(h, made) == drop_reference(made, Encoder(h, made.ref, made.st))

\* Encoder._pack
Encoder_pack(handler, h, obj, obj_id, st) ==
    IF HasKey(st.data, obj_id) THEN pack_reference(h, ObjectReference_init(st, obj))
    ELSE pack_body(h, obj, obj_id, Encoder_encode(handler, h, obj, st))

\* CollectionEncoder._encode: the list of the items' payloads
collection_body(r) == [st |-> r.st, exc |-> r.exc, body |-> ListBody(r.ps)]

\* PropertyClassEncoder._encode: the payloads by property name
fields_body(names, r) == [st |-> r.st, exc |-> r.exc, body |-> FieldsBody(names, r.ps)]

\* MethodEncoder._encode: [the payload of bound.__self__, bound.__func__.__name__]
method_body(name, r) == [st |-> r.st, exc |-> r.exc, body |-> MethodBody(r.ps, name)]

\* _ObjectReferenceEncoder._encode: self.get_id(obj_ref.obj)
reference_body(st, target, got) ==
    [st |-> identified(st, target, got), exc |-> "", body |-> IntBody(got.id)]

\* DictEncoder._encode: [*zip(*...)] of the (key, value) payloads
dict_rows(ks, vs) ==
    IF vs.exc # "" THEN [st |-> vs.st, exc |-> vs.exc, body |-> RowsBody(<<>>)]
    ELSE [st |-> vs.st, exc |-> "",
          body |-> RowsBody(zip_star([i \in 1..Len(vs.ps) |-> <<ks.ps[i], vs.ps[i]>>]))]

\* DictEncoder._encode once every key's generator gave its first: every one
\* gives its second, the value
dict_values(h, items, ks) ==
    IF ks.exc # "" THEN [st |-> ks.st, exc |-> ks.exc, body |-> RowsBody(<<>>)]
    ELSE dict_rows(ks, encode_each(h, items, ks.st))

\* the positions of the properties ConfigEncoder encodes:
\* filter(Config.has_config_data, type(obj).properties)
config_properties(c) ==
    LET Has(i) == has_config_data(c, PropertiesOf(c)[i])
    IN  SelectSeq([i \in 1..Len(PropertiesOf(c)) |-> i], Has)

\* the _encode of each handler class, entered
encode_body(handler, h, obj, st) ==
    CASE handler = "PrimitiveEncoder" ->
            [st |-> st, exc |-> "", body |-> LitBody(obj)]
      [] handler = "TypeEncoder" ->
            [st |-> st, exc |-> "", body |-> StrBody(get_fully_qualified_name(obj.n))]
      [] handler = "ObjectReferenceEncoder" ->
            reference_body(st, st.temps[obj.v].target, get_id(st, st.temps[obj.v].target))
      [] handler = "CollectionEncoder" ->
            collection_body(encode_each(h, h[obj.v].items, st))
      [] handler = "DictEncoder" ->
            \* zip(*generators) draws the first of every (key, value) generator,
            \* then the second of every one: all keys, then all values
            dict_values(h, h[obj.v].items, encode_each(h, h[obj.v].keys, st))
      [] handler = "EnumEncoder" ->
            [st |-> st, exc |-> "", body |-> StrBody(obj.n)]
      [] handler = "MethodEncoder" ->
            method_body(obj.n, encode_each(h, <<Ref(obj.v)>>, st))
      [] handler = "PropertyClassEncoder" ->
            fields_body(PropertiesOf(h[obj.v].t), encode_each(h, h[obj.v].items, st))
      [] handler = "ConfigEncoder" ->
            fields_body([i \in 1..Len(config_properties(h[obj.v].t)) |->
                            PropertiesOf(h[obj.v].t)[config_properties(h[obj.v].t)[i]]],
                        encode_each(h, [i \in 1..Len(config_properties(h[obj.v].t)) |->
                                           h[obj.v].items[config_properties(h[obj.v].t)[i]]], st))
      [] OTHER -> [st |-> st, exc |-> "", body |-> LitBody(obj)]

\* self._encode(obj)
Encoder_encode(handler, h, obj, st) ==
    encode_body(handler, h, obj, logged(st, Event("body", obj, handler, "", "", 0, 0, "")))

\* the call of Encoder(...) has returned: one construction less on the stack
Encoder_return(st, r) == [r EXCEPT !.st.depth = st.depth]

\* the handler classes that pack as PrimitiveEncoder does
PrimitivePacking == {"PrimitiveEncoder", "TypeEncoder"}

\* _pack as Encoder has it for every handler class, PrimitiveEncoder included
Encoder_packed_interning(handler, h, obj, obj_id, st) ==
    [Encoder_pack(handler, h, obj, obj_id, st) EXCEPT !.id = obj_id]

\* self.obj_data = self._pack(obj), with self._obj_id
Encoder_packed(handler, h, obj, obj_id, st) ==
    IF handler \in PrimitivePacking
    THEN [PrimitiveEncoder_pack(handler, h, obj, st) EXCEPT !.id = obj_id]
    ELSE [Encoder_pack(handler, h, obj, obj_id, st) EXCEPT !.id = obj_id]

\* Encoder.__init__: self._obj_id = self.get_id(obj); self.obj_data = self._pack(obj)
Encoder_init(handler, h, obj, st, got) ==
    Encoder_return(st,
        Encoder_packed(handler, h, obj, got.id,
                       [identified(st, obj, got) EXCEPT !.depth = @ + 1]))

\* the call tree after _resolve_handler gave the handler class, or raised
handler_resolved(st, obj_type, handler_cls) ==
    logged([st EXCEPT !.registry = handler_cls.registry,
                      !.overrides = handler_cls.overrides],
           Event("resolve", NoValue, handler_cls.handler, "", obj_type, 0, 0, handler_cls.exc))

\* an Encoder that starts a table of its own whatever its parent
Encoder_made_own_table(handler, h, obj, st) ==
    Encoder_init(handler, h, obj, [st EXCEPT !.data = <<>>], get_id(st, obj))

\* Encoder.__init__ after __new__ gave an instance of the handler class
Encoder_made(handler, h, obj, st) == Encoder_init(handler, h, obj, st, get_id(st, obj))

\* Encoder.__new__: the handler class is resolved before anything else
Encoder_new(h, obj, st, encoder_type) ==
    IF encoder_type.exc # ""
    THEN EncFail(handler_resolved(st, TypeOf(h, obj), encoder_type), encoder_type.exc)
    ELSE Encoder_made(encoder_type.handler, h, obj, handler_resolved(st, TypeOf(h, obj), encoder_type))

\* Encoder(obj, parent, overrides) for a child
Encoder(h, obj, st) ==
    IF st.depth >= RecursionLimit THEN EncFail(raised(st, "Encoder", "RecursionError"), "RecursionError")
    ELSE Encoder_new(h, obj, st, resolve_handler(st.registry, TypeOf(h, obj), st.overrides))

\* what self.data[self._obj_id] = self.obj_id leaves in the table for the root
RootEntry(obj_id) == Untracked("", IntBody(obj_id))

\* Encoder.__init__ for parent None, after _pack
Encoder_root(obj, r) ==
    IF r.exc # "" THEN r
    ELSE [r EXCEPT !.st.data = dict_setitem(@, r.id, RootEntry(r.id))]

\* encode(obj, overrides, id_provider): the outermost Encoder, with a table of
\* its own and, without an id_provider, a MonotonicID of its own
encode(h, obj, registry, overrides, id_provider, reuse) ==
    Encoder_root(obj, Encoder(h, obj, [data |-> <<>>, objects |-> <<>>, temps |-> <<>>,
                                       made |-> 0, reuse |-> reuse, depth |-> 0,
                                       id_provider |-> id_provider, registry |-> registry,
                                       overrides |-> overrides, trace |-> <<>>]))

-----------------------------------------------------------------------------
(* transcode.py: Decoder. The state threaded through one decode call tree: *)
(*   cache      decoded_objects (identifier -> instance)                   *)
(*   heap       the objects constructed so far, by address                 *)
(*   depth      the number of Decoder constructions on the call stack      *)
(*   registry   Decoder._registry                                          *)
(*   overrides  the overrides mapping handed down the call tree            *)
(*   trace      the events so far                                          *)

DecFail(st, exc) == [st |-> st, exc |-> exc, val |-> NoValue]

NumericTypes == {"int", "bool", "float"}

RECURSIVE HashEq(_, _, _)
\* a == b for hashable a and b: numbers by value, tuples item by item, other
\* objects by identity
HashEq(h, a, b) ==
    IF a = b THEN TRUE
    ELSE IF a.k = "prim" /\ b.k = "prim"
    THEN a.t \in NumericTypes /\ b.t \in NumericTypes /\ a.v = b.v
    ELSE IF a.k = "ref" /\ b.k = "ref"
    THEN /\ issubclass(h[a.v].t, "tuple") /\ issubclass(h[b.v].t, "tuple")
         /\ Len(h[a.v].items) = Len(h[b.v].items)
         /\ \A i \in 1..Len(h[a.v].items) : HashEq(h, h[a.v].items[i], h[b.v].items[i])
    ELSE FALSE

RECURSIVE Hashable(_, _)
\* hash(v) does not raise
Hashable(h, v) ==
    IF v.k # "ref" THEN TRUE
    ELSE IF issubclass(h[v.v].t, "PropertyClass") THEN TRUE
    ELSE /\ issubclass(h[v.v].t, "tuple")
         /\ \A i \in 1..Len(h[v.v].items) : Hashable(h, h[v.v].items[i])

RECURSIVE without_duplicates(_, _)
\* set(items): of equal items the first stays
without_duplicates(h, items) ==
    IF items = <<>> THEN <<>>
    ELSE LET rest == without_duplicates(h, SubSeq(items, 1, Len(items) - 1))
             last == items[Len(items)]
         IN  IF \E i \in 1..Len(rest) : HashEq(h, rest[i], last) THEN rest
             ELSE Append(rest, last)

RECURSIVE dict_of_pairs(_, _, _)
\* {key: value for ...}: a key met again keeps its place and takes the new value
dict_of_pairs(h, keys, values) ==
    IF keys = <<>> THEN Obj("dict", <<>>, <<>>)
    ELSE LET n == Len(keys)
             rest == dict_of_pairs(h, SubSeq(keys, 1, n - 1), SubSeq(values, 1, n - 1))
             same == {i \in 1..Len(rest.keys) : HashEq(h, rest.keys[i], keys[n])}
         IN  IF same = {} THEN Obj("dict", Append(rest.keys, keys[n]), Append(rest.items, values[n]))
             ELSE Obj("dict", rest.keys,
                      [i \in 1..Len(rest.items) |-> IF i \in same THEN values[n] ELSE rest.items[i]])

\* obj_type(value) for a primitive type
construct_primitive(obj_type, lit) ==
    CASE obj_type = "bool" -> [exc |-> "", val |-> Prim("bool", IF lit.v = 0 THEN 0 ELSE 1)]
      [] obj_type \in {"int", "float"} ->
            IF lit.k = "prim" /\ lit.t \in NumericTypes
            THEN [exc |-> "", val |-> Prim(obj_type, lit.v)]
            ELSE [exc |-> "TypeError", val |-> NoValue]
      [] obj_type = "str" ->
            IF lit.k = "prim" /\ lit.t = "str" THEN [exc |-> "", val |-> lit]
            ELSE [exc |-> "", val |-> Prim("str", 0 - 1 - lit.v)]
      [] OTHER -> [exc |-> "TypeError", val |-> NoValue]

\* a new object on the decoder's heap
construct(st, obj) ==
    [st |-> [st EXCEPT !.heap = Append(st.heap, obj)], exc |-> "",
     val |-> Ref(Len(st.heap) + 1)]

\* the call tree after the Locator was called with the name
located(st, name, t) == logged(st, Event("locate", NoValue, "", name, t.val, 0, 0, t.exc))

\* _unpack after the call of the Locator: a TypeError for the name of NoneType
\* is caught and NoneType taken
unpacked(st, name, t) ==
    IF t.exc = "TypeError" /\ name = QualnameOf("NoneType")
    THEN [st |-> logged(located(st, name, t),
                        Event("unpack", NoValue, "", name, "NoneType", 0, 0, "")),
          exc |-> "", val |-> "NoneType"]
    ELSE IF t.exc # "" THEN [st |-> located(st, name, t), exc |-> t.exc, val |-> NotAClass]
    ELSE [st |-> logged(located(st, name, t), Event("unpack", NoValue, "", name, t.val, 0, 0, "")),
          exc |-> "", val |-> t.val]

\* _unpack as it was before NoneType was taken for its name: every exception
\* of the Locator is passed on
Decoder_unpack_no_fallback(l, encoded_data, st) ==
    LET t == Locator_call(l, encoded_data.tn)
    IN  IF t.exc # "" THEN [st |-> located(st, encoded_data.tn, t), exc |-> t.exc, val |-> NotAClass]
        ELSE unpacked(st, encoded_data.tn, t)

\* _unpack that takes NoneType for whatever name the Locator raised TypeError
\* for
Decoder_unpack_any_fallback(l, encoded_data, st) ==
    LET t == Locator_call(l, encoded_data.tn)
    IN  IF t.exc = "TypeError"
        THEN [st |-> logged(located(st, encoded_data.tn, t),
                            Event("unpack", NoValue, "", encoded_data.tn, "NoneType", 0, 0, "")),
              exc |-> "", val |-> "NoneType"]
        ELSE unpacked(st, encoded_data.tn, t)

\* Decoder._unpack: the type the name resolves to
Decoder_unpack(l, encoded_data, st) ==
    unpacked(st, encoded_data.tn, Locator_call(l, encoded_data.tn))

RECURSIVE Decoder(_, _, _)
RECURSIVE Decoder_decode_body(_, _, _, _, _)
RECURSIVE decode_each(_, _, _)

\* the instances of a generator: the first item's before the others'
instances_after(first, rest) ==
    [st |-> rest.st, exc |-> rest.exc,
     vals |-> IF rest.exc # "" THEN <<>> ELSE <<first.val>> \o rest.vals]

\* the generator after its first item: an exception ends it
decode_rest(l, ps, first) ==
    IF first.exc # "" THEN [st |-> first.st, exc |-> first.exc, vals |-> <<>>]
    ELSE instances_after(first, decode_each(l, ps, first.st))

\* Decoder(item, self.locator, self, ...).instance for every item, in order
decode_each(l, ps, st) ==
    IF ps = <<>> THEN [st |-> st, exc |-> "", vals |-> <<>>]
    ELSE decode_rest(l, Tail(ps), Decoder(l, Head(ps), st))

\* PrimitiveDecoder.decode: no identifier, no cache; u is what _unpack gave
PrimitiveDecoder_decode(handler, l, encoded_data, u) ==
    IF u.exc # "" THEN DecFail(u.st, u.exc)
    ELSE Decoder_decode_body(handler, l, u.val, encoded_data, u.st)

\* self.decoded_objects[obj_id] = instance; return instance
cache_instance(obj_id, r) ==
    IF r.exc # "" THEN r
    ELSE [r EXCEPT !.st = logged([r.st EXCEPT !.cache = dict_setitem(@, obj_id, r.val)],
                                 Event("cache", r.val, "", "", "", obj_id, 0, ""))]

\* decode that constructs anew whatever the cache holds
Decoder_decode_no_cache(handler, l, encoded_data, u) ==
    IF u.exc # "" THEN DecFail(u.st, u.exc)
    ELSE IF ~encoded_data.tracked THEN DecFail(raised(u.st, handler, "TypeError"), "TypeError")
    ELSE cache_instance(encoded_data.id,
                        Decoder_decode_body(handler, l, u.val, encoded_data, u.st))

\* decode that puts the identifier into the cache before the body runs, and
\* the instance under it afterwards
Decoder_decode_reserving(handler, l, encoded_data, u) ==
    IF u.exc # "" THEN DecFail(u.st, u.exc)
    ELSE IF ~encoded_data.tracked THEN DecFail(raised(u.st, handler, "TypeError"), "TypeError")
    ELSE IF HasKey(u.st.cache, encoded_data.id)
    THEN [st |-> logged(u.st, Event("hit", ItemOf(u.st.cache, encoded_data.id).value, handler,
                                    "", "", encoded_data.id, 0, "")),
          exc |-> "", val |-> ItemOf(u.st.cache, encoded_data.id).value]
    ELSE cache_instance(encoded_data.id,
                        Decoder_decode_body(handler, l, u.val, encoded_data,
                            logged([u.st EXCEPT !.cache = dict_setitem(@, encoded_data.id, NoValue)],
                                   Event("cache", NoValue, "", "", "", encoded_data.id, 0, ""))))

\* Decoder.decode; u is what _unpack gave
Decoder_decode(handler, l, encoded_data, u) ==
    IF u.exc # "" THEN DecFail(u.st, u.exc)
    ELSE IF ~encoded_data.tracked THEN DecFail(raised(u.st, handler, "TypeError"), "TypeError")
    ELSE IF HasKey(u.st.cache, encoded_data.id)
    THEN [st |-> logged(u.st, Event("hit", ItemOf(u.st.cache, encoded_data.id).value, handler,
                                    "", "", encoded_data.id, 0, "")),
          exc |-> "", val |-> ItemOf(u.st.cache, encoded_data.id).value]
    ELSE cache_instance(encoded_data.id,
                        Decoder_decode_body(handler, l, u.val, encoded_data, u.st))

\* Decoder._decode: obj_type(value)
primitive_instance(st, handler, c) ==
    IF c.exc # "" THEN DecFail(raised(st, handler, c.exc), c.exc)
    ELSE [st |-> st, exc |-> "", val |-> c.val]

\* TypeDecoder._decode: self.locator(fully_qualified_name)
located_value(st, name, t) ==
    IF t.exc # "" THEN DecFail(located(st, name, t), t.exc)
    ELSE [st |-> located(st, name, t), exc |-> "",
          val |-> IF t.val \in Types THEN TypeVal(t.val)
                  ELSE IF t.val \in Functions THEN FuncVal(t.val)
                  ELSE NoneVal]

\* CollectionDecoder._decode: obj_type(the instances)
collection_of(handler, obj_type, r) ==
    IF r.exc # "" THEN DecFail(r.st, r.exc)
    ELSE IF ~issubclass(obj_type, "set")
    THEN construct(r.st, Obj(obj_type, <<>>, r.vals))
    ELSE IF \E i \in 1..Len(r.vals) : ~Hashable(r.st.heap, r.vals[i])
    THEN DecFail(raised(r.st, handler, "TypeError"), "TypeError")
    ELSE construct(r.st, Obj(obj_type, <<>>, without_duplicates(r.st.heap, r.vals)))

\* the (key, item) pairs of zip(*items), one after another
flat_pairs(pairs) == [i \in 1..(2 * Len(pairs)) |-> pairs[(i + 1) \div 2][2 - (i % 2)]]

\* DictDecoder._decode: the dict of the decoded keys and values
dict_of(handler, r) ==
    IF r.exc # "" THEN DecFail(r.st, r.exc)
    ELSE IF \E i \in 1..(Len(r.vals) \div 2) : ~Hashable(r.st.heap, r.vals[2 * i - 1])
    THEN DecFail(raised(r.st, handler, "TypeError"), "TypeError")
    ELSE construct(r.st, dict_of_pairs(r.st.heap,
                                       [i \in 1..(Len(r.vals) \div 2) |-> r.vals[2 * i - 1]],
                                       [i \in 1..(Len(r.vals) \div 2) |-> r.vals[2 * i]]))

\* a property nothing was assigned to: its default applies when it is read
Unset == [k |-> "unset", t |-> "", n |-> "", v |-> 0]

\* PropertyClassDecoder._decode: obj_type(**{name: instance})
instance_of(handler, obj_type, names, r) ==
    IF r.exc # "" THEN DecFail(r.st, r.exc)
    ELSE IF \E i \in 1..Len(names) : names[i] \notin SeqToSet(PropertiesOf(obj_type))
    THEN DecFail(raised(r.st, handler, "TypeError"), "TypeError")
    ELSE construct(r.st, Obj(obj_type, <<>>,
            [i \in 1..Len(PropertiesOf(obj_type)) |->
                IF PropertiesOf(obj_type)[i] \in SeqToSet(names)
                THEN r.vals[IndexIn(names, PropertiesOf(obj_type)[i])]
                ELSE Unset]))

\* MethodDecoder._decode: getattr(instance, func_name)
bound_method(handler, func_name, r) ==
    IF r.exc # "" THEN DecFail(r.st, r.exc)
    ELSE IF r.vals[1].k = "ref" /\ func_name \in MethodsOf(r.st.heap[r.vals[1].v].t)
    THEN [st |-> r.st, exc |-> "", val |-> Method(r.vals[1].v, func_name)]
    ELSE DecFail(raised(r.st, handler, "AttributeError"), "AttributeError")

\* a reference that gives a new object equal to the one under the identifier
referenced_copying(st, handler, value) ==
    IF ~HasKey(st.cache, value) THEN DecFail(raised(st, handler, "KeyError"), "KeyError")
    ELSE IF ItemOf(st.cache, value).value.k # "ref"
    THEN [st |-> st, exc |-> "", val |-> ItemOf(st.cache, value).value]
    ELSE construct(st, st.heap[ItemOf(st.cache, value).value.v])

\* _ObjectReferenceDecoder._decode: self.decoded_objects[value]
referenced(st, handler, value) ==
    IF HasKey(st.cache, value)
    THEN [st |-> st, exc |-> "", val |-> ItemOf(st.cache, value).value]
    ELSE DecFail(raised(st, handler, "KeyError"), "KeyError")

\* the _decode of each handler class, entered
decode_body(handler, l, obj_type, body, st) ==
    CASE handler \in {"Decoder", "PrimitiveDecoder"} ->
            primitive_instance(st, handler, construct_primitive(obj_type, body.lit))
      [] handler = "NoneTypeDecoder" -> [st |-> st, exc |-> "", val |-> NoneVal]
      [] handler = "TypeDecoder" -> located_value(st, body.s, Locator_call(l, body.s))
      [] handler = "ObjectReferenceDecoder" -> referenced(st, handler, body.n)
      [] handler = "CollectionDecoder" ->
            collection_of(handler, obj_type, decode_each(l, body.a, st))
      [] handler = "DictDecoder" ->
            \* the comprehension decodes key, value, key, value, ...
            dict_of(handler, decode_each(l, flat_pairs(zip_rows(body.rows)), st))
      [] handler = "EnumDecoder" ->
            IF body.s \in EnumMembers(obj_type)
            THEN [st |-> st, exc |-> "", val |-> EnumVal(obj_type, body.s)]
            ELSE DecFail(raised(st, handler, "KeyError"), "KeyError")
      [] handler = "MethodDecoder" ->
            bound_method(handler, body.s, decode_each(l, body.a, st))
      [] handler = "PropertyClassDecoder" ->
            instance_of(handler, obj_type, body.names, decode_each(l, body.a, st))
      [] handler = "ExampleOverrider" -> [st |-> st, exc |-> "", val |-> Prim("str", 1)]
      [] OTHER -> DecFail(raised(st, handler, "TypeError"), "TypeError")

\* self._decode(member_type, member_data)
Decoder_decode_body(handler, l, obj_type, encoded_data, st) ==
    decode_body(handler, l, obj_type, encoded_data.body,
                logged(st, Event("body", NoValue, handler, encoded_data.tn, obj_type,
                                 encoded_data.id, 0, "")))

\* the call of Decoder(...) has returned: one construction less on the stack
Decoder_return(st, r) == [r EXCEPT !.st.depth = st.depth]

\* the handler classes that decode as PrimitiveDecoder does
PrimitiveDecoding == {"PrimitiveDecoder", "NoneTypeDecoder", "TypeDecoder"}

\* Decoder.__init__: self.instance = self.decode()
Decoder_init(handler, l, encoded_data, st) ==
    IF handler \in PrimitiveDecoding
    THEN PrimitiveDecoder_decode(handler, l, encoded_data, Decoder_unpack(l, encoded_data, st))
    ELSE Decoder_decode(handler, l, encoded_data, Decoder_unpack(l, encoded_data, st))

\* Decoder.__new__ after _resolve_handler
Decoder_made(l, encoded_data, st, obj_type, decoder_cls) ==
    IF decoder_cls.exc # "" THEN DecFail(handler_resolved(st, obj_type, decoder_cls), decoder_cls.exc)
    ELSE Decoder_init(decoder_cls.handler, l, encoded_data,
                      [handler_resolved(st, obj_type, decoder_cls) EXCEPT !.depth = @ + 1])

\* Decoder.__new__: the type name is resolved, then the handler class
Decoder_new(l, encoded_data, attr_type) ==
    IF attr_type.exc # "" THEN DecFail(attr_type.st, attr_type.exc)
    ELSE Decoder_made(l, encoded_data, attr_type.st, attr_type.val,
                      resolve_handler(attr_type.st.registry, attr_type.val,
                                      attr_type.st.overrides))

\* Decoder(encoded_data, locator, parent, overrides)
Decoder(l, encoded_data, st) ==
    IF st.depth >= RecursionLimit
    THEN DecFail(raised(st, "Decoder", "RecursionError"), "RecursionError")
    ELSE Decoder_return(st, Decoder_new(l, encoded_data, Decoder_unpack(l, encoded_data, st)))

\* default_locator = Locator()
default_locator == Locator_init(<<>>, "none")

\* decode(obj_data, locator, overrides): the outermost Decoder, with a cache
\* of its own
decode(obj_data, locator, registry, overrides) ==
    Decoder(locator, obj_data, [cache |-> <<>>, heap |-> <<>>, depth |-> 0,
                                registry |-> registry, overrides |-> overrides,
                                trace |-> <<>>])

-----------------------------------------------------------------------------
(* The values the variables of a component hold while another is exercised *)

NoLookup == [op |-> "none", cand |-> NotAClass, base |-> NoBase,
             exc |-> "", key |-> NotAClass, handler |-> NoHandler]

RegistryIdle == treg = <<>> /\ lookup = NoLookup

NoCall == [op |-> "none", name |-> "", exc |-> "", val |-> NotAClass]

NoName == ""

LocatorIdle ==
    /\ loc = Locator_init(<<>>, "none")
    /\ resolved = NoCall
    /\ passed = <<>>
    /\ lastDenied = NoName

NoEnc == [exc |-> "", payload |-> NoPayload, data |-> <<>>, objects |-> <<>>,
          overrides |-> <<>>, id_provider |-> "MonotonicID", reuse |-> FALSE,
          id |-> 0, trace |-> <<>>]

NoDec == [exc |-> "", val |-> NoValue, heap |-> <<>>, cache |-> <<>>,
          locator |-> Locator_init(<<>>, "none"), overrides |-> <<>>, trace |-> <<>>]

TranscoderIdle ==
    /\ heap = <<>>
    /\ phase = "build"
    /\ root = NoValue
    /\ enc = NoEnc
    /\ dec = NoDec

\* the registries of the handler classes once the modules are imported
ImportedRegistries == [Encoder |-> EncoderRegistry, Decoder |-> DecoderRegistry]

NoResolving == [op |-> "none", cls |-> "", obj_type |-> NotAClass, overrides |-> <<>>,
                exc |-> "", key |-> NotAClass, handler |-> NoHandler]

ResolveIdle ==
    /\ registries = ImportedRegistries
    /\ handler_overrides = <<>>
    /\ resolving = NoResolving

-----------------------------------------------------------------------------
(* traits/observable.py: AsynchronousDelivery. The delivery's fields are    *)
(* variables; a thread is a number, 0 is no thread. An item of the queue is *)
(* the value given to update() with n, the place of its update() among all  *)
(* appends, which no code reads.                                            *)

NoThread == 0

\* the threads of the program that call update()
Updaters == {1, 2}

\* the k-th thread update() starts on _deliver_queue
DeliveryThread(k) == Cardinality(Updaters) + k

\* the values a program assigns to the watched property
Values == {0, 1}

\* OnChange._UNCHANGED
UNCHANGED_SENTINEL == -1

NoItem == [v |-> UNCHANGED_SENTINEL, n |-> 0]

UpdatePolicies == {"Always", "OnChange"}

\* Always.requires_update and OnChange.requires_update: [result, last]
requires_update(policy, last, value) ==
    IF policy = "Always" THEN [result |-> TRUE, last |-> last]
    ELSE [result |-> value # last, last |-> value]

\* deque.pop(): the item on the right
deque_pop(q) == [item |-> q[Len(q)], rest |-> SubSeq(q, 1, Len(q) - 1)]

\* deque.popleft()
deque_popleft(q) == [item |-> Head(q), rest |-> Tail(q)]

\* the queue is never looked at again once popleft has raised IndexError
queue_refilled_never(q) == FALSE

\* _deliver_queue, under the lock: if self._data_queue
queue_refilled(q) == q # <<>>

\* update() starts a thread whether there is one or not
no_delivery_thread_always(thread) == TRUE

\* update, under the lock: if not self._delivery_thread
no_delivery_thread(thread) == thread = NoThread

NoAwait == [res |-> "none", pending |-> {}, posts |-> 0]

\* AsynchronousDelivery.__init__ has run and nothing else
DeliveryIdle ==
    /\ canceled = FALSE
    /\ data_lock = NoThread
    /\ data_queue = <<>>
    /\ delivery_thread = NoThread
    /\ queue_empty_event = FALSE
    /\ observer = [policy |-> "Always", last |-> UNCHANGED_SENTINEL, raises |-> {}]
    /\ updating = [u \in Updaters |-> [pc |-> "idle", item |-> NoItem]]
    /\ delivering = <<>>
    /\ posted = <<>>
    /\ handed = <<>>
    /\ returned = {}
    /\ awaited = NoAwait

-----------------------------------------------------------------------------
(* traits/overridable.py: one Overridable trait of the property p of the    *)
(* class OverrideTester, its instances ot and ot2, and the threads of a     *)
(* program. An Override object is a number, 0 in target_attr is the         *)
(* override target itself.                                                  *)

Threads == {1, 2}

Instances == {"ot", "ot2"}

\* the scopes of the Override objects: the instances, the class (override_all)
\* and the property (the overrides override_all makes)
OverrideScopes == Instances \cup {"OverrideTester", "p"}

NoLock == [lock |-> 0, count |-> 0]

\* Override._override: the trait's _override on the thread that entered
Override_override(o, thread) ==
    IF o.thread_id = thread THEN "_override" ELSE "_override_target"

\* _InstanceOverride._override
InstanceOverride_override(o, thread, instance) ==
    IF instance = o.scope /\ o.thread_id = thread THEN "_override" ELSE "_override_target"

\* a call of the trait's method of the target's name: what it runs
trait_call(attr, objs, thread, instance) ==
    IF attr = 0 THEN "_override_target"
    ELSE IF objs[attr].kind = "Override" THEN Override_override(objs[attr], thread)
    ELSE InstanceOverride_override(objs[attr], thread, instance)

\* Override._locks[scope], a defaultdict: [entry, locks, rlocks] after the read
locks_getitem(locks, rls, scope) ==
    IF locks[scope] # NoLock THEN [entry |-> locks[scope], locks |-> locks, rlocks |-> rls]
    ELSE LET made == [lock |-> Len(rls) + 1, count |-> 0]
         IN  [entry |-> made, locks |-> [locks EXCEPT ![scope] = made],
              rlocks |-> Append(rls, [owner |-> NoThread, depth |-> 0])]

NoOverriddenCall == [thread |-> NoThread, instance |-> "", ran |-> "", held |-> FALSE,
                     nested |-> FALSE]

OverrideIdle ==
    /\ target_attr = 0
    /\ scope_locks = [s \in OverrideScopes |-> NoLock]
    /\ rlocks = <<>>
    /\ override_objs = <<>>
    /\ ovthreads = [t \in Threads |-> [scopes |-> <<>>, ops |-> <<>>, lock |-> 0, count |-> 0,
                                       exc |-> "", left |-> 0]]
    /\ called = NoOverriddenCall

-----------------------------------------------------------------------------
(* traits/reference_counted.py: the ReferenceCounted objects x and y and    *)
(* two instances of a class with two properties of their type.              *)

Counted == {"x", "y"}

Composers == {"c1", "c2"}

ComposerProperties == {"prop", "other"}

PyNone == "None"

\* _ReferenceCounter._get_current_value
get_current_value(dict, instance, property) == dict[instance][property]

\* ReferenceCounted._dereference: [exc, composers, unreferenced]; set.remove
\* raises KeyError for what is not in the set
dereference(comps, obj, instance) ==
    IF instance \notin comps[obj]
    THEN [exc |-> "KeyError", composers |-> comps, unreferenced |-> FALSE]
    ELSE [exc |-> "", composers |-> [comps EXCEPT ![obj] = @ \ {instance}],
          unreferenced |-> comps[obj] \ {instance} = {}]

\* ReferenceCounted._reference
reference(comps, obj, instance) == [comps EXCEPT ![obj] = @ \cup {instance}]

\* _ReferenceCounter.apply(instance, value) for the property:
\* [exc, composers, unreferenced]
ReferenceCounter_apply(dict, comps, instance, property, value) ==
    LET current == get_current_value(dict, instance, property)
        d == IF current \in Counted THEN dereference(comps, current, instance)
             ELSE [exc |-> "", composers |-> comps, unreferenced |-> FALSE]
    IN  IF d.exc # "" THEN d
        ELSE IF value \in Counted
        THEN [d EXCEPT !.composers = reference(d.composers, value, instance)]
        ELSE d

\* ReferenceCounted.composed_by
composed_by(comps, obj) == comps[obj]

\* ReferenceCounted.reference_count
reference_count(comps, obj) == Cardinality(comps[obj])

NoAssignment ==
    [instance |-> "", property |-> "", value |-> PyNone, current |-> PyNone, exc |-> "",
     unreferenced |-> FALSE, before |-> [o \in Counted |-> {}], n |-> 0]

ReferenceCountedIdle ==
    /\ instance_dict = [c \in Composers |-> [p \in ComposerProperties |-> PyNone]]
    /\ composers = [o \in Counted |-> {}]
    /\ unreferenced = <<>>
    /\ assigned = NoAssignment

TraitsIdle == DeliveryIdle /\ OverrideIdle /\ ReferenceCountedIdle

CoreIdle == RegistryIdle /\ LocatorIdle /\ TranscoderIdle /\ ResolveIdle

-----------------------------------------------------------------------------
(* SpecLocator: one Locator, allow() and calls on it.                      *)

AllowableTypes == {"Foo", "Bar", "Foo2", "NoneType", "int"}

ResolveNames ==
    {get_fully_qualified_name(t) : t \in AllowableTypes \cup {"function", "method", "LocalType"}}
        \cup {"asdf", "os"}

\* Locator(load_policy=...) and Locator(T, load_policy=...)
InitLocator ==
    /\ \E p \in Policies, ts \in {<<>>} \cup {<<t>> : t \in AllowableTypes} :
          /\ loc = Locator_init(ts, p)
          /\ passed = ts
    /\ resolved = NoCall
    /\ lastDenied = NoName
    /\ RegistryIdle
    /\ TranscoderIdle
    /\ ResolveIdle
    /\ TraitsIdle

\* locator.allow(t)
Allow ==
    \E t \in AllowableTypes :
        /\ Len(passed) < MaxAllowed
        /\ loc' = Locator_allow(loc, t)
        /\ passed' = Append(passed, t)
        /\ resolved' = [op |-> "allow", name |-> get_fully_qualified_name(t),
                        exc |-> "", val |-> NotAClass]
        /\ UNCHANGED <<lastDenied, regVars, tcVars, rhVars, trVars>>

\* locator(name)
Resolve ==
    \E n \in ResolveNames :
        LET r == Locator_call(loc, n)
        IN  /\ resolved' = [op |-> "call", name |-> n, exc |-> r.exc, val |-> r.val]
            /\ lastDenied' = IF r.exc = "PermissionError" THEN n ELSE lastDenied
            /\ UNCHANGED <<loc, passed, regVars, tcVars, rhVars, trVars>>

NextLocator == Allow \/ Resolve

SpecLocator == InitLocator /\ [][NextLocator]_vars

-----------------------------------------------------------------------------
(* SpecRegistry: registrations and lookups on one TypeRegistry.            *)

RegistryKeys == {"Base", "A", "B", "DA", "DDA", "M"}
Candidates == RegistryKeys \cup {"DM", "int", "list[int]"}
ConstrainingBases == {NoBase, "A", "DA"}
Handlers == {"h1", "h2"}

InitRegistry ==
    /\ treg = <<>>
    /\ lookup = NoLookup
    /\ LocatorIdle
    /\ TranscoderIdle
    /\ ResolveIdle
    /\ TraitsIdle

\* treg[key] = handler (also what update, register_key and register_value do)
SetItem ==
    \E k \in RegistryKeys, h \in Handlers :
        /\ HasKey(treg, k) \/ Len(treg) < MaxKeys
        /\ treg' = dict_setitem(treg, k, h)
        /\ lookup' = NoLookup
        /\ UNCHANGED <<locVars, tcVars, rhVars, trVars>>

\* treg.pop(key)
Pop ==
    \E k \in RegistryKeys :
        /\ HasKey(treg, k)
        /\ treg' = dict_pop(treg, k)
        /\ lookup' = NoLookup
        /\ UNCHANGED <<locVars, tcVars, rhVars, trVars>>

\* treg[t]
LookupExact ==
    \E t \in Candidates :
        LET r == TypeRegistry_getitem(treg, t)
        IN  /\ lookup' = [op |-> "exact", cand |-> t, base |-> NoBase,
                          exc |-> r.exc, key |-> r.key, handler |-> r.handler]
            /\ treg' = r.reg
            /\ UNCHANGED <<locVars, tcVars, rhVars, trVars>>

\* treg[t:base]
LookupClosest ==
    \E t \in Candidates, b \in ConstrainingBases :
        LET r == TypeRegistry_getitem_slice(treg, t, b)
        IN  /\ lookup' = [op |-> "closest", cand |-> t, base |-> b,
                          exc |-> r.exc, key |-> r.key, handler |-> r.handler]
            /\ treg' = r.reg
            /\ UNCHANGED <<locVars, tcVars, rhVars, trVars>>

NextRegistry == SetItem \/ Pop \/ LookupExact \/ LookupClosest

SpecRegistry == InitRegistry /\ [][NextRegistry]_vars

-----------------------------------------------------------------------------
(* SpecResolve: a program fills an overrides mapping and the handler        *)
(* classes resolve types with it.                                          *)

\* the types a program maps to a handler class of its own
OverrideKeys == {"PropertyClass", "TestClass", "list", "object", "Enum"}

\* the handler classes a program maps them to
OverrideHandlers == {"ConfigEncoder", "ExampleOverrider"}

\* the types of the objects handed to an Encoder or named in a payload
ResolveTypes ==
    {"bool", "int", "NoneType", "list", "tuple", "E", "TestClass", "LocalType",
     "CallableTest", "Foo"}

TranscoderClasses == {"Encoder", "Decoder"}

InitResolve ==
    /\ registries = ImportedRegistries
    /\ handler_overrides = <<>>
    /\ resolving = NoResolving
    /\ RegistryIdle
    /\ LocatorIdle
    /\ TranscoderIdle
    /\ TraitsIdle

\* overrides[k] = handler
OverrideSet ==
    \E k \in OverrideKeys, hc \in OverrideHandlers :
        /\ HasKey(handler_overrides, k) \/ Len(handler_overrides) < MaxOverrides
        /\ handler_overrides' = dict_setitem(handler_overrides, k, hc)
        /\ resolving' = NoResolving
        /\ UNCHANGED <<registries, regVars, locVars, tcVars, trVars>>

\* overrides.clear()
OverrideClear ==
    /\ handler_overrides # <<>>
    /\ handler_overrides' = <<>>
    /\ resolving' = NoResolving
    /\ UNCHANGED <<registries, regVars, locVars, tcVars, trVars>>

\* cls._resolve_handler(obj_type, overrides)
ResolveHandler ==
    \E cls \in TranscoderClasses, obj_type \in ResolveTypes :
        LET r == resolve_handler(registries[cls], obj_type, handler_overrides)
        IN  /\ resolving' = [op |-> "resolve", cls |-> cls, obj_type |-> obj_type,
                             overrides |-> handler_overrides,
                             exc |-> r.exc, key |-> r.key, handler |-> r.handler]
            /\ registries' = [registries EXCEPT ![cls] = r.registry]
            /\ handler_overrides' = r.overrides
            /\ UNCHANGED <<regVars, locVars, tcVars, trVars>>

NextResolve == OverrideSet \/ OverrideClear \/ ResolveHandler

SpecResolve == InitResolve /\ [][NextResolve]_vars

-----------------------------------------------------------------------------
(* Spec: a program creates objects and fills them, then calls encode() on  *)
(* one of them and decode() on the payload.                                *)

\* the value a program stores into its objects: 1
Literals == {Prim("int", 1)}

\* the values a program creates a tuple or a set with: 1, "asdf", 1.0, True,
\* None, E.A and the class Foo
CreatedWith ==
    Literals \cup {Prim("str", 1), Prim("float", 1), Prim("bool", 1), NoneVal,
                   EnumVal("E", "A"), TypeVal("Foo")}

\* the objects a program starts with, by class and in the order of creation
Programs ==
    {<<"list">>, <<"TestClass">>, <<"list", "list">>, <<"dict", "list">>,
     <<"dict", "tuple">>, <<"dict", "TestClass">>, <<"TestClass", "list">>,
     <<"list", "set">>, <<"list", "LocalType">>,
     <<"list", "CallableTest", "CallableTest">>,
     <<"list", "Foo">>}

Addresses == 1..Len(heap)

\* what a program can store: a literal or one of its objects
Storable == Literals \cup {Ref(a) : a \in Addresses}

\* []   {}   TestClass(a=0, c=None)   Foo()
NewInstance(t) ==
    IF issubclass(t, "TestClass")
    THEN Obj(t, <<>>, [i \in 1..Len(PropertiesOf(t)) |-> IF i = 1 THEN Prim("int", 0) ELSE NoneVal])
    ELSE Obj(t, <<>>, <<>>)

\* the items, entries and assigned properties the heap holds
RECURSIVE Slots(_)
Slots(h) ==
    IF h = <<>> THEN 0
    ELSE LET o == h[Len(h)]
             own == IF issubclass(o.t, "TestClass")
                    THEN Cardinality({i \in 1..Len(o.items) : o.items[i] # NewInstance(o.t).items[i]})
                    ELSE IF issubclass(o.t, "PropertyClass") THEN 0
                    ELSE Len(o.items)
         IN  own + Slots(SubSeq(h, 1, Len(h) - 1))

\* what an object of the class is when created: [], {}, TestClass(...) and
\* Foo() are filled later; a tuple or a set is created as (), (v,), set() or
\* {v}, and a tuple also as (v, v), or as (x,) for an object x created before
\* it; a CallableTest is created with its delegate, free_function or the
\* some_method of a CallableTest created before it
CreatedAs(t, a) ==
    IF t \in {"tuple", "set"}
    THEN {Obj(t, <<>>, <<>>)}
            \cup {Obj(t, <<>>, <<v>>) : v \in CreatedWith}
            \cup {Obj(t, <<>>, <<v, v>>) : v \in IF t = "tuple" THEN CreatedWith ELSE {}}
            \cup {Obj(t, <<>>, <<Ref(x)>>) : x \in IF t = "tuple" THEN 1..(a - 1) ELSE {}}
    ELSE IF t = "CallableTest"
    THEN {Obj(t, <<>>, <<FuncVal("free_function")>>)}
            \cup {Obj(t, <<>>, <<Method(x, "some_method")>>) : x \in 1..(a - 1)}
    ELSE {NewInstance(t)}

InitTranscoder ==
    /\ \E ts \in Programs :
          \E h \in [1..Len(ts) -> UNION {CreatedAs(ts[a], a) : a \in 1..Len(ts)}] :
              /\ \A a \in 1..Len(ts) : h[a] \in CreatedAs(ts[a], a)
              /\ \A a \in 1..Len(ts) : \A i \in 1..Len(h[a].items) :
                    h[a].items[i].k = "method" => h[a].items[i].n \in MethodsOf(ts[h[a].items[i].v])
              /\ heap = h
    /\ phase = "build"
    /\ root = NoValue
    /\ enc = NoEnc
    /\ dec = NoDec
    /\ RegistryIdle
    /\ LocatorIdle
    /\ ResolveIdle
    /\ TraitsIdle

\* x.append(v)
ListAppend ==
    \E a \in Addresses, v \in Storable :
        /\ phase = "build"
        /\ heap[a].t = "list"
        /\ Slots(heap) < MaxSlots
        /\ heap' = [heap EXCEPT ![a].items = Append(@, v)]
        /\ UNCHANGED <<phase, root, enc, dec, regVars, locVars, rhVars, trVars>>

\* x[k] = v
DictStore ==
    \E a \in Addresses, k \in Storable, v \in Storable :
        LET same == {i \in 1..Len(heap[a].keys) : HashEq(heap, heap[a].keys[i], k)}
        IN  /\ phase = "build"
            /\ heap[a].t = "dict"
            /\ Hashable(heap, k)
            /\ same # {} \/ Slots(heap) < MaxSlots
            /\ heap' = IF same = {}
                       THEN [heap EXCEPT ![a].keys = Append(@, k), ![a].items = Append(@, v)]
                       ELSE [heap EXCEPT ![a].items =
                                [i \in 1..Len(@) |-> IF i \in same THEN v ELSE @[i]]]
            /\ heap' # heap
            /\ UNCHANGED <<phase, root, enc, dec, regVars, locVars, rhVars, trVars>>

\* x.a = 1   x.c = v
SetProperty ==
    \E a \in Addresses, v \in Storable :
        /\ phase = "build"
        /\ issubclass(heap[a].t, "TestClass")
        /\ \E i \in 1..Len(heap[a].items) :
              /\ i = 1 => v \in Literals
              /\ heap[a].items[i] = NewInstance(heap[a].t).items[i]
              /\ Slots(heap) < MaxSlots
              /\ heap' = [heap EXCEPT ![a].items[i] = v]
        /\ UNCHANGED <<phase, root, enc, dec, regVars, locVars, rhVars, trVars>>

\* Config.encode: overrides={PropertyClass: ConfigEncoder}
ConfigOverrides == dict_setitem(<<>>, "PropertyClass", "ConfigEncoder")

\* the calls of encode a program makes: encode(x), encode(x, id_provider=id)
\* and Config.encode(x); call is [overrides, id_provider, reuse], of which
\* reuse is the allocator's doing
EncodeCalls ==
    {[overrides |-> <<>>, id_provider |-> p, reuse |-> b] : p \in IdProviders, b \in BOOLEAN}
        \cup {[overrides |-> ConfigOverrides, id_provider |-> "MonotonicID", reuse |-> FALSE]}

\* what the program sees of an encode call, and what the call leaves behind
Encoded(call, r) ==
    [exc |-> r.exc, payload |-> r.payload, data |-> r.st.data, objects |-> r.st.objects,
     overrides |-> call.overrides, id_provider |-> call.id_provider, reuse |-> call.reuse,
     id |-> r.id, trace |-> r.st.trace]

\* the call tree of encode(obj, overrides, id_provider) is over
EncodeDone(obj, call, r) ==
    /\ phase' = "encoded"
    /\ root' = obj
    /\ enc' = Encoded(call, r)
    /\ registries' = [registries EXCEPT !.Encoder = r.st.registry]
    /\ handler_overrides' = r.st.overrides
    /\ UNCHANGED <<heap, dec, resolving, regVars, locVars, trVars>>

\* payload = encode(x, ...), for the first time, or once more after a call
\* with overrides
Encode ==
    \E a \in Addresses, call \in EncodeCalls :
        /\ phase \in IF enc.overrides # <<>> THEN {"build", "encoded"} ELSE {"build"}
        /\ EncodeDone(Ref(a), call,
                      encode(heap, Ref(a), registries.Encoder, call.overrides,
                             call.id_provider, call.reuse))

\* test_decode_override: overrides={TestClass: ExampleOverrider}
DecoderOverrides == dict_setitem(<<>>, "TestClass", "ExampleOverrider")

\* the locators a program decodes with
Locators ==
    {default_locator,
     Locator_init(<<"tuple", "type">>, "strict"),
     Locator_init(<<"tuple", "type", "Foo">>, "strict"),
     Locator_init(<<"CallableTest", "function", "method", "free_function">>, "strict"),
     Locator_init(<<"object">>, "allow_subclass")}

\* the calls of decode a program makes: decode(p), decode(p, locator) and
\* decode(p, overrides=...)
DecodeCalls ==
    {[locator |-> l, overrides |-> <<>>] : l \in Locators}
        \cup {[locator |-> default_locator, overrides |-> DecoderOverrides]}

\* encode(x), and nothing else
PlainEncode == enc.overrides = <<>> /\ enc.id_provider = "MonotonicID"

\* what the program sees of a decode call, and what the call leaves behind
Decoded(call, r) ==
    [exc |-> r.exc, val |-> r.val, heap |-> r.st.heap, cache |-> r.st.cache,
     locator |-> call.locator, overrides |-> call.overrides, trace |-> r.st.trace]

\* the call tree of decode(payload, locator, overrides) is over
DecodeDone(call, r) ==
    /\ phase' = "decoded"
    /\ dec' = Decoded(call, r)
    /\ registries' = [registries EXCEPT !.Decoder = r.st.registry]
    /\ handler_overrides' = r.st.overrides
    /\ UNCHANGED <<heap, root, enc, resolving, regVars, locVars, trVars>>

\* copy = decode(payload, ...)
Decode ==
    \E call \in DecodeCalls :
        /\ phase = "encoded"
        /\ enc.exc = ""
        /\ call # [locator |-> default_locator, overrides |-> <<>>]
              => PlainEncode /\ ~enc.reuse
        /\ DecodeDone(call, decode(enc.payload, call.locator, registries.Decoder,
                                   call.overrides))

Next == ListAppend \/ DictStore \/ SetProperty \/ Encode \/ Decode

Spec == InitTranscoder /\ [][Next]_vars

-----------------------------------------------------------------------------
(* Object graphs: paths from a value, by child position. The children of   *)
(* an object are its keys, then its items; the child of a bound method is  *)
(* the object it is bound to.                                              *)

ChildValues(h, v) ==
    IF v.k = "ref" THEN h[v.v].keys \o h[v.v].items
    ELSE IF v.k = "method" THEN <<Ref(v.v)>>
    ELSE <<>>

RECURSIVE Paths(_, _, _)
\* the paths of at most n steps that start at v
Paths(h, v, n) ==
    IF n = 0 THEN {<<>>}
    ELSE {<<>>} \cup UNION {{<<i>> \o p : p \in Paths(h, ChildValues(h, v)[i], n - 1)} :
                              i \in 1..Len(ChildValues(h, v))}

RECURSIVE Follow(_, _, _)
\* where the path leads; NoValue when it leaves the graph
Follow(h, v, p) ==
    IF p = <<>> THEN v
    ELSE IF Head(p) \in 1..Len(ChildValues(h, v))
    THEN Follow(h, ChildValues(h, v)[Head(p)], Tail(p))
    ELSE NoValue

\* a bound method is one step more on the way to what comes after it
SourcePaths == Paths(heap, root, Len(heap) + 1)

\* the objects encode(root) has to go through
Reachable == {Follow(heap, root, p).v : p \in {q \in SourcePaths : Follow(heap, root, q).k = "ref"}}

\* a value the Encoder gives a full body with an identifier: an object, an
\* enum member or a bound method
IsTracked(v) == v.k \in {"ref", "enum", "method"}

\* the tracked values encode(root) comes upon
TrackedReachable == {v \in {Follow(heap, root, p) : p \in SourcePaths} : IsTracked(v)}

\* root refers back to itself, directly or through other objects
RootOnCycle == \E p \in SourcePaths : p # <<>> /\ Follow(heap, root, p) = root

\* two different paths of the source reach one object
SharedInSource ==
    \E p \in SourcePaths, q \in SourcePaths :
        p # q /\ IsTracked(Follow(heap, root, p)) /\ Follow(heap, root, p) = Follow(heap, root, q)

RECURSIVE StructEq(_, _, _, _, _)
\* v in h1 and w in h2 are of one class and equal child by child, n levels
\* down; bound methods are equal when of one name and bound to equal objects
StructEq(h1, v, h2, w, n) ==
    IF v.k = "method" /\ w.k = "method"
    THEN v.n = w.n /\ (n = 0 \/ StructEq(h1, Ref(v.v), h2, Ref(w.v), n - 1))
    ELSE IF v.k # "ref" \/ w.k # "ref" THEN v = w
    ELSE IF n = 0 THEN TRUE
    ELSE /\ h1[v.v].t = h2[w.v].t
         /\ Len(h1[v.v].keys) = Len(h2[w.v].keys)
         /\ Len(h1[v.v].items) = Len(h2[w.v].items)
         /\ \A i \in 1..Len(ChildValues(h1, v)) :
               i <= Len(ChildValues(h2, w)) =>
                  StructEq(h1, ChildValues(h1, v)[i], h2, ChildValues(h2, w)[i], n - 1)

\* the copy has one object wherever the source has one
SameIdentities ==
    \A p \in SourcePaths, q \in SourcePaths :
        IsTracked(Follow(heap, root, p)) /\ Follow(heap, root, p) = Follow(heap, root, q)
            => /\ IsTracked(Follow(dec.heap, dec.val, p))
               /\ Follow(dec.heap, dec.val, p) = Follow(dec.heap, dec.val, q)

-----------------------------------------------------------------------------
(* Claims on the transcoder *)

\* decode(payload), and nothing else
PlainDecode == dec.locator = default_locator /\ dec.overrides = <<>>

\* the classes whose instances encode() and decode() have no handler for, or
\* no name to find them by
Unsupported == {"Foo", "LocalType"}

\* the call is encode(x, id_provider=...) for an x built from supported types
SupportedCallWith(id_provider) ==
    /\ enc.overrides = <<>>
    /\ enc.id_provider = id_provider
    /\ \A a \in Reachable : heap[a].t \notin Unsupported

\* the call is encode(x) for an x built from supported types
SupportedCall == SupportedCallWith("MonotonicID")

\* C1: for every value built from supported types, encode succeeds, decode of
\* the payload succeeds, and the copy is structurally equal to the value
C1_RoundTrip ==
    SupportedCall =>
        /\ phase # "build" => enc.exc = ""
        /\ phase = "decoded" /\ PlainDecode =>
              dec.exc = "" /\ StructEq(heap, root, dec.heap, dec.val, Len(heap) + 2)

\* C2: whenever two paths of the source reach one reference-tracked instance,
\* there is a decoded graph and in it the two paths reach one instance
C2_IdentityPreservation ==
    SharedInSource /\ SupportedCall =>
        /\ phase # "build" => enc.exc = ""
        /\ phase = "decoded" /\ PlainDecode => dec.exc = "" /\ SameIdentities

\* C3: for an object that refers back to itself, encode ends without running
\* out of stack, so does decode, and the copy refers back to itself alike
C3_CycleSafety ==
    phase # "build" /\ RootOnCycle /\ SupportedCall =>
        /\ enc.exc = ""
        /\ phase = "decoded" /\ PlainDecode =>
              /\ dec.exc = ""
              /\ StructEq(heap, root, dec.heap, dec.val, Len(heap) + 2)
              /\ SameIdentities

RECURSIVE Flatten(_)
RECURSIVE FlattenEach(_)
\* the payload and every payload nested in it, each as often as it occurs
Flatten(p) ==
    <<p>> \o FlattenEach(p.body.a)
          \o (IF Len(p.body.rows) = 2
              THEN FlattenEach(p.body.rows[1]) \o FlattenEach(p.body.rows[2])
              ELSE <<>>)

FlattenEach(ps) == IF ps = <<>> THEN <<>> ELSE Flatten(Head(ps)) \o FlattenEach(Tail(ps))

IsReference(p) == p.tn = get_fully_qualified_name("ObjectReference")

Count(ps, Test(_)) == Cardinality({i \in 1..Len(ps) : Test(ps[i])})

\* how often encode(root) comes upon the object: once for every place it takes
\* in a reachable object or bound method, and once more if it is the root
Encounters(obj) ==
    LET Occurrences(c) ==
            Cardinality({i \in 1..Len(ChildValues(heap, c)) :
                            ChildValues(heap, c)[i] = obj})
        RECURSIVE Sum(_)
        Sum(S) == IF S = {} THEN 0
                  ELSE LET c == CHOOSE x \in S : TRUE IN Occurrences(c) + Sum(S \ {c})
    IN  Sum(TrackedReachable) + (IF obj = root THEN 1 ELSE 0)

\* C4: in the payload of one encode call every reference-tracked value has
\* one full body, and every other encounter of it is an ObjectReference
\* payload whose handler data is the value's identifier (the call is
\* encode(x): the handlers are the registered ones, the identifiers are in
\* the MonotonicID of the call)
C4_FullBodyAtMostOnce ==
    phase # "build" /\ enc.exc = "" /\ PlainEncode =>
        LET flat == Flatten(enc.payload)
            IdOf(v) == ItemOf(enc.objects, v).value
            FullBody(v) == LET T(p) == p.tracked /\ ~IsReference(p) /\ p.id = IdOf(v)
                           IN  Count(flat, T)
            References(v) == LET T(p) == IsReference(p) /\ p.body.n = IdOf(v)
                             IN  Count(flat, T)
        IN  /\ \A v \in TrackedReachable :
                  /\ HasKey(enc.objects, v)
                  /\ FullBody(v) = 1
                  /\ References(v) = Encounters(v) - 1
            /\ \A i \in 1..Len(flat) :
                  IsReference(flat[i]) => \E v \in TrackedReachable : flat[i].body.n = IdOf(v)

\* an object met three times: one full body and two references
C4_Witness ==
    /\ phase = "encoded" /\ enc.exc = "" /\ PlainEncode
    /\ \E a \in Reachable : Encounters(Ref(a)) = 3
    /\ LET T(p) == IsReference(p) IN Count(Flatten(enc.payload), T) = 2

-----------------------------------------------------------------------------
(* Claims on the registry *)

KeySet(reg) == {reg[i].key : i \in 1..Len(reg)}

\* the registered keys the candidate is a subtype of (or is)
RegisteredAncestors(reg, c) == {k \in KeySet(reg) : issubclass(c, k)}

ProperSubclass(b, a) == b # a /\ issubclass(b, a)

\* C5: Dispatch correctness. With A and a proper subtype B of A registered, the
\* closest-relative lookup of an unregistered subtype C of B never gives A's
\* item, and gives B's item and handler whenever B is the most derived
\* registered ancestor of C; a candidate class none of whose ancestors is
\* registered fails with KeyError.
C5_DispatchCorrectness ==
    (lookup.op = "closest" /\ lookup.base = NoBase /\ lookup.cand \in Types) =>
        LET c == lookup.cand
            anc == RegisteredAncestors(treg, c)
        IN  /\ (anc = {}) => (lookup.exc = "KeyError" /\ lookup.handler = NoHandler)
            /\ (anc # {}) => lookup.exc = ""
            /\ \A a \in anc, b \in anc :
                 (ProperSubclass(b, a) /\ c \notin anc) =>
                    /\ lookup.key # a
                    /\ (\A k \in anc : issubclass(b, k)) =>
                          /\ lookup.key = b
                          /\ lookup.handler = ItemOf(treg, b).value

\* C5 witness: A and DA registered, the unregistered DDA looked up, DA's item found
C5_Witness ==
    /\ lookup.op = "closest" /\ lookup.base = NoBase /\ lookup.cand = "DDA"
    /\ KeySet(treg) = {"A", "DA"}
    /\ lookup.key = "DA"

\* the length of the longest chain of ancestors above t (object has none)
RECURSIVE Depth(_)
Depth(t) ==
    IF Bases[t] = <<>> THEN 0
    ELSE LET ds == {Depth(Bases[t][i]) : i \in 1..Len(Bases[t])}
         IN  1 + CHOOSE d \in ds : \A e \in ds : e <= d

\* the number of inheritance paths that lead from t up to a
RECURSIVE NumPaths(_, _)
RECURSIVE SumPaths(_, _)
SumPaths(bs, a) == IF bs = <<>> THEN 0 ELSE NumPaths(Head(bs), a) + SumPaths(Tail(bs), a)
NumPaths(t, a) == IF t = a THEN 1 ELSE SumPaths(Bases[t], a)

RECURSIVE SumOver(_, _)
SumOver(S, t) ==
    IF S = {} THEN 0
    ELSE LET a == CHOOSE x \in S : TRUE IN NumPaths(t, a) + SumOver(S \ {a}, t)

\* the ancestors of t, each counted once for every inheritance path to it
AncestorOccurrences(t) == SumOver({a \in Types : ProperSubclass(t, a)}, t)

\* every class at or above t has at most one base
RECURSIVE SingleInheritance(_)
SingleInheritance(t) ==
    /\ Len(Bases[t]) <= 1
    /\ \A i \in 1..Len(Bases[t]) : SingleInheritance(Bases[t][i])

\* C6 as stated: the key found is a deepest registered ancestor-or-self of the
\* candidate, in every hierarchy.
C6_Original_DeepestAlways ==
    (lookup.op = "closest" /\ lookup.base = NoBase /\ lookup.exc = "") =>
        \A k \in RegisteredAncestors(treg, unbind_generics(lookup.cand)) :
            Depth(lookup.key) >= Depth(k)

\* C6 amended: the key found is a registered ancestor-or-self of the candidate
\* with the most ancestors counted once per inheritance path; it is a deepest
\* one when the candidate's ancestry is single inheritance throughout.
C6_MostAncestorOccurrences ==
    (lookup.op = "closest" /\ lookup.base = NoBase /\ lookup.exc = "") =>
        LET c == unbind_generics(lookup.cand)
            anc == RegisteredAncestors(treg, c)
        IN  /\ lookup.key \in anc
            /\ \A k \in anc : AncestorOccurrences(lookup.key) >= AncestorOccurrences(k)
            /\ SingleInheritance(c) => \A k \in anc : Depth(lookup.key) >= Depth(k)

\* C6 witness: two registered ancestors of different depth, the deeper one found
C6_Witness ==
    /\ lookup.op = "closest" /\ lookup.base = NoBase /\ lookup.cand = "DDA"
    /\ KeySet(treg) = {"Base", "DA"}
    /\ treg[1].key = "DA"
    /\ lookup.key = "DA"

-----------------------------------------------------------------------------
(* Claims on the Locator *)

\* the places in the history where a type of that name was given
GivenUnder(n) == {i \in 1..Len(passed) : get_fully_qualified_name(passed[i]) = n}

Latest(idx) == CHOOSE i \in idx : \A j \in idx : j <= i

\* the types on the allow-list now: those given, but for the ones a later type
\* of the same name has replaced
AllowListed == {passed[i] : i \in {j \in 1..Len(passed) :
                    j = Latest(GivenUnder(get_fully_qualified_name(passed[j])))}}

\* C7: Strict policy. After the constructor and any allow() calls, a call with
\* a name gives the type of that name that was given to the constructor or to
\* an earlier allow() (the latest one, should two share the name), and raises
\* PermissionError, returning nothing, exactly when no type of that name was
\* given; so a name denied before allow(T) gives T after it.
C7_StrictPolicy ==
    (loc.load_policy = "strict" /\ resolved.op = "call") =>
        LET idx == GivenUnder(resolved.name)
        IN  /\ (idx = {}) => (resolved.exc = "PermissionError" /\ resolved.val = NotAClass)
            /\ (idx # {}) => (resolved.exc = "" /\ resolved.val = passed[Latest(idx)])

\* C7 witness: Bar's name was denied, then allow(Bar), and now the name gives Bar
C7_Witness ==
    /\ loc.load_policy = "strict"
    /\ passed = <<"Foo", "Bar">>
    /\ lastDenied = get_fully_qualified_name("Bar")
    /\ resolved = [op |-> "call", name |-> get_fully_qualified_name("Bar"),
                   exc |-> "", val |-> "Bar"]

\* C8: Subclass policy. A name that pydoc.locate resolves to a class that is an
\* allow-listed type or a subtype of one is resolved to that class.
C8_SubclassPermits ==
    (loc.load_policy = "allow_subclass" /\ resolved.op = "call") =>
        LET t == locate(resolved.name)
        IN  (t \in Types /\ \E a \in AllowListed : issubclass(t, a)) =>
                (resolved.exc = "" /\ resolved.val = t)

\* C8 witness: Foo allowed, the name of its subclass Bar resolved to Bar
C8_Witness ==
    /\ loc.load_policy = "allow_subclass"
    /\ passed = <<"Foo">>
    /\ resolved = [op |-> "call", name |-> get_fully_qualified_name("Bar"),
                   exc |-> "", val |-> "Bar"]

\* C9: Subclass policy denial. A name whose resolved type is a subtype of no
\* allow-listed type, or that resolves to nothing, is denied with
\* PermissionError and no type is returned.
C9_SubclassDenial ==
    (loc.load_policy = "allow_subclass" /\ resolved.op = "call") =>
        LET t == locate(resolved.name)
        IN  (t \notin Types \/ ~ \E a \in AllowListed : issubclass(t, a)) =>
                (resolved.exc = "PermissionError" /\ resolved.val = NotAClass)

SpecialNames == {"NoneType", "function", "method"}

\* C10 as stated: the names of NoneType, the function type and the bound-method
\* type give those types under every policy and allow-list.
C10_Original_EveryPolicy ==
    (resolved.op = "call" /\ resolved.name \in SpecialNames) =>
        (resolved.exc = "" /\ resolved.val = resolved.name)

\* C10 amended: the three names give their built-in types under the Locator
\* without a load policy, whatever is allow-listed; under the strict policy
\* they do so only when a type of that name is allow-listed, and are refused
\* with PermissionError otherwise; under the subclass policy, where the
\* ordinary lookup finds nothing for them, no type is returned.
C10_SpecialCasesWithoutPolicy ==
    (resolved.op = "call" /\ resolved.name \in SpecialNames) =>
        /\ (loc.load_policy = "none") =>
              (resolved.exc = "" /\ resolved.val = resolved.name)
        /\ (loc.load_policy = "strict") =>
              IF resolved.name \in AllowListed
              THEN resolved.exc = "" /\ resolved.val = resolved.name
              ELSE resolved.exc = "PermissionError" /\ resolved.val = NotAClass
        /\ (loc.load_policy = "allow_subclass") => resolved.val = NotAClass

\* C10 witness: no load policy, NoneType not allow-listed, its name resolved
C10_Witness ==
    /\ loc.load_policy = "none"
    /\ passed = <<"Foo">>
    /\ resolved = [op |-> "call", name |-> "NoneType", exc |-> "", val |-> "NoneType"]

-----------------------------------------------------------------------------
(* Claims on the registry: constrained lookup and purity *)

\* the registered keys a lookup of c under the base may give: the ancestors
\* (or c itself) that are subtypes of the base (or the base itself)
Qualifying(reg, c, base) ==
    {k \in RegisteredAncestors(reg, c) : base = NoBase \/ issubclass(k, base)}

\* C19: closest_relative(candidate, constraining_base) gives the handler of a
\* registered key that is an ancestor-or-self of the candidate and a
\* subtype-or-self of the constraining base, and no other such key is more
\* derived than the one it gives; with no such key it fails with KeyError.
C19_ConstrainedClosestRelative ==
    (lookup.op = "closest" /\ unbind_generics(lookup.cand) \in Types) =>
        LET Q == Qualifying(treg, unbind_generics(lookup.cand), lookup.base)
        IN  /\ (Q = {}) => (lookup.exc = "KeyError" /\ lookup.handler = NoHandler)
            /\ (Q # {}) =>
                  /\ lookup.exc = ""
                  /\ lookup.key \in Q
                  /\ lookup.handler = ItemOf(treg, lookup.key).value
                  /\ \A k \in Q : ~ProperSubclass(k, lookup.key)

\* C19 witness: DDA and M registered, DM looked up under the base DA: M, which
\* the unconstrained lookup gives, is no subtype of DA, and DDA is found
C19_Witness ==
    /\ lookup.op = "closest" /\ lookup.cand = "DM" /\ lookup.base = "DA"
    /\ KeySet(treg) = {"DDA", "M"}
    /\ lookup.exc = "" /\ lookup.key = "DDA"

\* C20: a step that is a lookup, exact or closest-relative, found or not,
\* leaves the registry's items as they were; the items change only by an item
\* assignment or a pop.
C20_LookupIsPure ==
    [][ /\ (lookup'.op # "none") => (treg' = treg)
        /\ (treg' # treg) =>
              \E k \in RegistryKeys :
                  \/ treg' = dict_pop(treg, k)
                  \/ \E h \in Handlers : treg' = dict_setitem(treg, k, h) ]_vars

\* C20 witness: a closest-relative lookup that found a key and, in a registry
\* of two keys, one that failed
C20_Witness ==
    /\ Len(treg) = 2
    /\ lookup.op = "closest"
    /\ lookup.cand = "DDA"
    /\ \/ lookup.exc = "KeyError"
       \/ lookup.exc = "" /\ lookup.key # lookup.cand

-----------------------------------------------------------------------------
(* Claims on the transcoder: failures *)

\* the events of a call tree, by position
Events(trace) == 1..Len(trace)

\* the payloads of the payload of the last encode call
EncodedPayloads == Flatten(enc.payload)

\* a name pydoc.locate finds nothing for and _special_cases does not hold
Unlocatable(name) == locate(name) = NotAClass /\ ~HasKey(special_cases, name)

\* C11: with the default Locator a name that matches no symbol and is not
\* special-cased raises TypeError, and decode of a payload with such a type
\* name in it ends with that TypeError and gives no instance
C11_DefaultLocatorNotFound ==
    phase = "decoded" /\ dec.locator = default_locator =>
        /\ \A i \in Events(dec.trace) :
              dec.trace[i].ev = "locate" /\ Unlocatable(dec.trace[i].s)
                  => dec.trace[i].exc = "TypeError"
        /\ (\E i \in 1..Len(EncodedPayloads) : Unlocatable(EncodedPayloads[i].tn))
              => dec.exc = "TypeError" /\ dec.val = NoValue

\* decode(encode([lt])) for lt of a class defined inside a function
C11_Witness ==
    /\ phase = "decoded" /\ dec.locator = default_locator
    /\ heap[root.v].t = "list"
    /\ Len(EncodedPayloads) > 1
    /\ Unlocatable(EncodedPayloads[2].tn)
    /\ dec.trace[Len(dec.trace)].ev = "locate"
    /\ dec.exc = "TypeError"

\* the values of the graph decode returned
DecodedValues ==
    {Follow(dec.heap, dec.val, p) : p \in Paths(dec.heap, dec.val, Len(dec.heap) + 1)}

\* the Locator resolved the name to the type before the event at position i
ResolvedBefore(trace, i, name, t) ==
    \E j \in 1..(i - 1) :
        /\ trace[j].ev = "locate"
        /\ trace[j].s = name
        /\ trace[j].exc = ""
        /\ trace[j].t = t

\* a handler body is entered only for an entry whose type name the Locator
\* resolved to a type before
BodiesAfterLocator ==
    \A i \in Events(dec.trace) :
        dec.trace[i].ev = "body" =>
            /\ dec.trace[i].t \in Types
            /\ ResolvedBefore(dec.trace, i, dec.trace[i].s, dec.trace[i].t)

\* no handler body is entered for an entry whose type name is not on the
\* allow-list
BodiesOnAllowList ==
    \A i \in Events(dec.trace) :
        dec.trace[i].ev = "body" => HasKey(dec.locator.allowed, dec.trace[i].s)

\* the name the payload has for a type or callable value
NamedBy(v) == IF v.k = "method" THEN v.n ELSE get_fully_qualified_name(v.n)

\* no type or callable of the returned graph goes by a name that is not on
\* the allow-list
CallablesOnAllowList ==
    \A v \in DecodedValues :
        v.k \in {"type", "func", "method"} => HasKey(dec.locator.allowed, NamedBy(v))

\* C12: during decode a handler body is entered only after the Locator has
\* resolved the entry's type name to a type; with a strict Locator no body is
\* entered for, and no type or callable is returned under, a name that is not
\* on the allow-list
C12_LocatorGuardsBodies ==
    phase = "decoded" =>
        /\ BodiesAfterLocator
        /\ dec.locator.load_policy = "strict" => BodiesOnAllowList /\ CallablesOnAllowList

-----------------------------------------------------------------------------
(* Claims on handler resolution *)

\* the keys of the mapping that are the type or an ancestor of it
AncestorKeys(mapping, t) == {k \in SeqToSet(RegKeys(mapping)) : issubclass(t, k)}

\* key is a closest relative of the type in the mapping: the type or an
\* ancestor of it, and no other such key is derived from it
ClosestIn(mapping, t, key) ==
    /\ key \in AncestorKeys(mapping, t)
    /\ \A k \in AncestorKeys(mapping, t) : k # key => ~issubclass(k, key)

\* the resolution gave the handler the mapping has for a closest relative
ResolvedFrom(mapping, res) ==
    /\ res.exc = ""
    /\ ClosestIn(mapping, res.obj_type, res.key)
    /\ res.handler = ItemOf(mapping, res.key).value

\* C13: handler resolution for a type asks the overrides before the registry
\* of the class: with the type or an ancestor of it among the overrides the
\* closest such override's handler is used, else the handler of the registry's
\* closest relative, and with no ancestor in either resolution raises KeyError
C13_OverridesBeforeRegistry ==
    resolving.op = "resolve" =>
        IF AncestorKeys(resolving.overrides, resolving.obj_type) # {}
        THEN ResolvedFrom(resolving.overrides, resolving)
        ELSE IF AncestorKeys(ImportedRegistries[resolving.cls], resolving.obj_type) # {}
        THEN ResolvedFrom(ImportedRegistries[resolving.cls], resolving)
        ELSE resolving.exc = "KeyError" /\ resolving.handler = NoHandler

\* Encoder._resolve_handler(TestClass, {object: ..., PropertyClass: ConfigEncoder}):
\* the override of PropertyClass wins over that of object and over the
\* registry's PropertyClassEncoder
C13_Witness ==
    /\ resolving.op = "resolve" /\ resolving.cls = "Encoder"
    /\ resolving.obj_type = "TestClass"
    /\ AncestorKeys(resolving.overrides, "TestClass") = {"object", "PropertyClass"}
    /\ resolving.key = "PropertyClass"
    /\ resolving.handler = "ConfigEncoder"
    /\ ItemOf(registries.Encoder, "PropertyClass").value = "PropertyClassEncoder"

\* the three ways of C13: from the overrides, from the registry, KeyError
C13_WitnessRegistry ==
    /\ resolving.op = "resolve" /\ resolving.obj_type = "list"
    /\ resolving.overrides # <<>>
    /\ AncestorKeys(resolving.overrides, "list") = {}
    /\ resolving.handler = "CollectionDecoder"

C13_WitnessKeyError ==
    /\ resolving.op = "resolve" /\ resolving.obj_type = "Foo"
    /\ resolving.overrides # <<>>
    /\ resolving.exc = "KeyError"

\* every handler class the call tree resolved is the one the registry has for
\* the closest relative of the type, and every KeyError the registry's
DispatchedBy(reg, trace) ==
    \A i \in Events(trace) :
        trace[i].ev = "resolve" =>
            /\ trace[i].exc = TypeRegistry_getitem_slice(reg, trace[i].t, NoBase).exc
            /\ trace[i].h = TypeRegistry_getitem_slice(reg, trace[i].t, NoBase).handler

\* C14: the overrides of a call are for its call tree only: an encode or
\* decode call leaves the registries of Encoder and Decoder and the overrides
\* mapping as they were, and a call without overrides dispatches by the
\* registry as imported, whatever calls with overrides came before it
C14_OverridesScoped ==
    [][ /\ registries' = registries
        /\ enc' # enc =>
              /\ handler_overrides' = enc'.overrides
              /\ enc'.overrides = <<>> => DispatchedBy(ImportedRegistries.Encoder, enc'.trace)
        /\ dec' # dec =>
              /\ handler_overrides' = dec'.overrides
              /\ dec'.overrides = <<>> => DispatchedBy(ImportedRegistries.Decoder, dec'.trace)
      ]_vars

\* Config.encode(x) used ConfigEncoder for a TestClass, and the decode(payload)
\* after it PropertyClassDecoder
C14_Witness ==
    /\ phase = "decoded"
    /\ enc.overrides = ConfigOverrides
    /\ \E i \in Events(enc.trace) :
          enc.trace[i].ev = "resolve" /\ enc.trace[i].h = "ConfigEncoder"
    /\ dec.overrides = <<>>
    /\ \E i \in Events(dec.trace) :
          dec.trace[i].ev = "resolve" /\ dec.trace[i].h = "PropertyClassDecoder"
    /\ registries = ImportedRegistries

-----------------------------------------------------------------------------
(* Claims on identifiers *)

\* the type names of the primitives
PrimitiveNames == {get_fully_qualified_name(primitives[i]) : i \in 1..Len(primitives)}

\* [type-name, literal] of a primitive
IsLiteralPayload(p) == p.tn \in PrimitiveNames /\ ~p.tracked /\ p.body.shape = "lit"

\* the encounters of a primitive in the encode call tree: the bodies entered
PrimitiveBodies ==
    {i \in Events(enc.trace) : enc.trace[i].ev = "body" /\ enc.trace[i].obj.k = "prim"}

\* the identifiers get_id gave for primitives
PrimitiveIds ==
    {enc.trace[i].n : i \in {j \in Events(enc.trace) :
                                enc.trace[j].ev = "get_id" /\ enc.trace[j].obj.k = "prim"}}

IdCalls == {i \in Events(enc.trace) : enc.trace[i].ev = "get_id"}

\* two calls were for one object instance: one object, and for the
\* _ObjectReference objects that had one address one after another, the same
\* one of them
SameInstance(e1, e2) == e1.obj = e2.obj /\ e1.m = e2.m

\* two objects of the program that are not one, and equal by value
EqualDistinct(v, w) ==
    /\ v.k = "ref" /\ w.k = "ref" /\ v # w
    /\ StructEq(heap, v, heap, w, Len(heap) + 2)

\* C16: within one encode call every call of the identity provider for one
\* object instance gives one identifier, and two distinct instances that are
\* equal by value are given two
C16_IdentifierStability ==
    phase # "build" =>
        \A i \in IdCalls, j \in IdCalls :
            /\ SameInstance(enc.trace[i], enc.trace[j]) => enc.trace[i].n = enc.trace[j].n
            /\ EqualDistinct(enc.trace[i].obj, enc.trace[j].obj)
                  => enc.trace[i].n # enc.trace[j].n

\* encode([x, y, x]) for x and y two CallableTest(delegate=free_function)
C16_Witness ==
    /\ phase = "encoded" /\ enc.exc = ""
    /\ heap[root.v].t = "list"
    /\ \E i \in IdCalls, j \in IdCalls, k \in IdCalls :
          /\ i < j /\ j < k
          /\ EqualDistinct(enc.trace[i].obj, enc.trace[j].obj)
          /\ enc.trace[k].obj = enc.trace[i].obj
          /\ enc.trace[k].n = enc.trace[i].n
          /\ enc.trace[j].n # enc.trace[i].n

\* the full body of the value in the payload carries the identifier
StoredIdentifier(v, n) ==
    \E i \in 1..Len(EncodedPayloads) :
        /\ EncodedPayloads[i].tracked /\ ~IsReference(EncodedPayloads[i])
        /\ EncodedPayloads[i].tn = get_fully_qualified_name(TypeOf(heap, v))
        /\ EncodedPayloads[i].id = n

\* the identifier in the payload of every reference-tracked object is what
\* the builtin id gives for it, and every Encoder of the call tree asked the
\* builtin id
IdsFromProvider ==
    /\ \A i \in IdCalls : enc.trace[i].n = builtin_id(enc.trace[i].obj)
    /\ enc.objects = <<>>
    /\ enc.exc = "" =>
          /\ enc.id = builtin_id(root)
          /\ \A v \in TrackedReachable : StoredIdentifier(v, builtin_id(v))

\* C17: with id_provider=id the identifier in the payload of every
\* reference-tracked object is id(object), the Encoders of the children use
\* the same provider, and the payload decodes to an object equal to the source
C17_IdProvider ==
    enc.id_provider = "id" /\ phase # "build" /\ SupportedCallWith("id") =>
        /\ IdsFromProvider
        /\ phase = "decoded" /\ PlainDecode =>
              dec.exc = "" /\ StructEq(heap, root, dec.heap, dec.val, Len(heap) + 2)

-----------------------------------------------------------------------------
(* Claims on the transcoder: exceptions *)

\* the steps of the call tree that raised: a handler lookup, a handler body,
\* a call of the Locator
Raised(trace) == {i \in Events(trace) : trace[i].exc # ""}

\* the TypeError of the Locator that _unpack catches: the one for the name of
\* NoneType
CaughtByUnpack(e) ==
    e.ev = "locate" /\ e.exc = "TypeError" /\ e.s = get_fully_qualified_name("NoneType")

\* the step at position i ended the call: nothing was done after it, the
\* caller got its exception
Propagated(trace, i, exc) == i = Len(trace) /\ exc = trace[i].exc

\* a call that raised gave nothing, and raised what its last step raised
NothingReturned(trace, exc, nothing) ==
    exc # "" => nothing /\ trace # <<>> /\ trace[Len(trace)].exc = exc

C18_WitnessDecode ==
    /\ phase = "decoded"
    /\ dec.exc = "PermissionError"
    /\ \E i \in Events(dec.trace) : dec.trace[i].ev = "body" /\ dec.trace[i].h = "TypeDecoder"
    /\ dec.val = NoValue

\* decode with Locator(object, load_policy=allow_subclass) of an entry of
\* None: the Locator raised TypeError and decode returned an instance
C18_WitnessCaught ==
    /\ phase = "decoded"
    /\ dec.exc = ""
    /\ \E i \in Raised(dec.trace) : CaughtByUnpack(dec.trace[i])
    /\ dec.val # NoValue

-----------------------------------------------------------------------------
(* Claims on the order of reserving and filling *)

\* the events at which the _encode of a handler class that packs with an
\* identifier was entered for an object of the source
TrackedBodies ==
    {i \in Events(enc.trace) :
        /\ enc.trace[i].ev = "body"
        /\ enc.trace[i].h \notin PrimitivePacking \cup {"ObjectReferenceEncoder"}}

\* the object whose body was entered at i is met again at j and given a body
\* once more
EncodedAgain(i, j) ==
    /\ i < j
    /\ enc.trace[i].obj = enc.trace[j].obj

\* the identifier of the object whose body was entered at i: what get_id gave
\* the Encoder just before
IdentifierAt(i) == enc.trace[i - 1].n

\* self.data held the identifier before the body was entered at i
ReservedBefore(i) ==
    \E k \in 1..(i - 1) : enc.trace[k].ev = "store" /\ enc.trace[k].n = IdentifierAt(i)

\* C21: reserve-then-fill: an object met again from inside its own body, or
\* after it, is not given a body again in one encode call tree: its
\* identifier is in the entry table from before its body started, so the
\* second encounter takes the ObjectReference path
C21_ReserveThenFill ==
    \A i \in TrackedBodies, j \in TrackedBodies : ~EncodedAgain(i, j)

\* no object of the source is reached again from itself
AcyclicSource ==
    \A p \in SourcePaths :
        \A i \in 0..Len(p), j \in 0..Len(p) :
            i < j /\ Follow(heap, root, SubSeq(p, 1, i)).k = "ref"
                => Follow(heap, root, SubSeq(p, 1, i)) # Follow(heap, root, SubSeq(p, 1, j))

\* the events at which _ObjectReferenceDecoder._decode found no instance
\* under the target identifier
MissingTargets ==
    {i \in Raised(dec.trace) :
        dec.trace[i].h = "ObjectReferenceDecoder" /\ dec.trace[i].exc = "KeyError"}

\* C22: for an acyclic source of supported types, decode(encode(x)) finds the
\* target of every ObjectReference payload in the decoded-object cache when it
\* reaches the payload: the decoder visits the child payloads in the order
\* the encoder recorded them, so no lookup of a target identifier fails
C22_ReferencesAfterTargets ==
    phase = "decoded" /\ PlainDecode /\ AcyclicSource
        /\ (SupportedCallWith("MonotonicID") \/ SupportedCallWith("id"))
        => MissingTargets = {}

\* the handler classes of collections and mappings
ContainerDecoders == {"CollectionDecoder", "DictDecoder"}

\* the events at which the _decode of a collection or mapping was entered
ContainerBodies ==
    {i \in Events(dec.trace) :
        dec.trace[i].ev = "body" /\ dec.trace[i].h \in ContainerDecoders}

\* the payloads the entry holds for its members: the items of a collection,
\* the keys and the values of a mapping
MemberPayloads(p) ==
    p.body.a \o (IF Len(p.body.rows) = 2 THEN p.body.rows[1] \o p.body.rows[2] ELSE <<>>)

\* the identifiers of the members of the entry whose body was entered at i
MemberIds(i) ==
    UNION {{q.id : q \in {m \in SeqToSet(MemberPayloads(EncodedPayloads[x])) : m.tracked}} :
            x \in {y \in 1..Len(EncodedPayloads) :
                      /\ EncodedPayloads[y].tracked
                      /\ ~IsReference(EncodedPayloads[y])
                      /\ EncodedPayloads[y].id = dec.trace[i].n}}

\* the events after i at which a member of its entry was decoded: its body
\* entered, or its instance taken from the cache
MemberSteps(i) ==
    {j \in Events(dec.trace) :
        /\ j > i
        /\ dec.trace[j].ev \in {"body", "hit"}
        /\ dec.trace[j].n \in MemberIds(i)}

\* the events at which the identifier of the entry decoded at i was put into
\* decoded_objects
CachedAt(i) ==
    {k \in Events(dec.trace) : dec.trace[k].ev = "cache" /\ dec.trace[k].n = dec.trace[i].n}

-----------------------------------------------------------------------------
(* SpecPayload: a program puts a payload together by hand, entry by entry,  *)
(* and calls decode() on it. The payload is kept in enc.payload.            *)

\* the identifiers a hand-made payload has: 0 .. MaxIds - 1
MaxIds == 2

\* most entries a hand-made payload is made of
MaxEntries == 3

PayloadIds == 0..(MaxIds - 1)

\* ['list', ([], i)]   ['pypg.transcode._ObjectReference', (i, j)]   ['int', 1]
LeafPayloads ==
    {Tracked(get_fully_qualified_name("list"), ListBody(<<>>), i) : i \in PayloadIds}
        \cup {Tracked(get_fully_qualified_name("ObjectReference"), IntBody(i), j) :
                i \in PayloadIds, j \in PayloadIds}
        \cup {Untracked(get_fully_qualified_name("int"), LitBody(Prim("int", 1)))}

RECURSIVE PayloadSize(_)
RECURSIVE SizeOfEach(_)
\* the entries of a payload, itself included
PayloadSize(p) == 1 + SizeOfEach(p.body.a)

SizeOfEach(ps) == IF ps = <<>> THEN 0 ELSE PayloadSize(Head(ps)) + SizeOfEach(Tail(ps))

InitPayload ==
    /\ heap = <<>>
    /\ root = NoValue
    /\ phase = "encoded"
    /\ \E p \in LeafPayloads : enc = [NoEnc EXCEPT !.payload = p]
    /\ dec = NoDec
    /\ RegistryIdle
    /\ LocatorIdle
    /\ ResolveIdle
    /\ TraitsIdle

\* payload = ['list', ([payload], i)]
PayloadWrap ==
    \E i \in PayloadIds :
        /\ PayloadSize(enc.payload) < MaxEntries
        /\ enc' = [enc EXCEPT !.payload =
                      Tracked(get_fully_qualified_name("list"), ListBody(<<enc.payload>>), i)]
        /\ phase' = "encoded"
        /\ dec' = NoDec
        /\ UNCHANGED <<heap, root, regVars, locVars, rhVars, trVars>>

\* payload[1][0].append(entry)
PayloadAppend ==
    \E q \in LeafPayloads :
        /\ enc.payload.body.shape = "list"
        /\ PayloadSize(enc.payload) < MaxEntries
        /\ enc' = [enc EXCEPT !.payload.body.a = Append(@, q)]
        /\ phase' = "encoded"
        /\ dec' = NoDec
        /\ UNCHANGED <<heap, root, regVars, locVars, rhVars, trVars>>

\* copy = decode(payload)
PayloadDecode ==
    /\ phase = "encoded"
    /\ DecodeDone([locator |-> default_locator, overrides |-> <<>>],
                  decode(enc.payload, default_locator, registries.Decoder, <<>>))

NextPayload == PayloadWrap \/ PayloadAppend \/ PayloadDecode

SpecPayload == InitPayload /\ [][NextPayload]_vars

-----------------------------------------------------------------------------
(* Claims on the decoded-object cache *)

\* the events at which a Decoder that keeps its instance in the cache
\* entered its _decode
CachingBodies(trace) ==
    {i \in Events(trace) : trace[i].ev = "body" /\ trace[i].h \notin PrimitiveDecoding}

\* the events before j at which decoded_objects[n] was assigned
CachedBefore(trace, j, n) ==
    {k \in 1..(j - 1) : trace[k].ev = "cache" /\ trace[k].n = n}

\* the greatest of a set of events
LastOf(S) == CHOOSE k \in S : \A x \in S : x <= k

\* the events of the trace of the kind whose identifier is n
WithId(trace, S, n) == {i \in S : trace[i].n = n}

\* C24: decode cache hit: a Decoder whose payload's identifier is in the
\* decoded-object cache gives the instance stored there last and does not
\* enter its handler body; a handler body is entered only for an identifier
\* the cache does not hold, and when the call completes every body entered
\* was followed by one assignment of the cache under its identifier, which
\* the cache holds at the end
C24_DecodeCacheHit ==
    /\ \A j \in Events(dec.trace) :
          dec.trace[j].ev = "hit"
              => /\ CachedBefore(dec.trace, j, dec.trace[j].n) # {}
                 /\ dec.trace[j].obj
                        = dec.trace[LastOf(CachedBefore(dec.trace, j, dec.trace[j].n))].obj
    /\ \A j \in CachingBodies(dec.trace) : CachedBefore(dec.trace, j, dec.trace[j].n) = {}
    /\ phase = "decoded" /\ dec.exc = ""
          => \A n \in PayloadIds :
                /\ Cardinality(WithId(dec.trace, CachingBodies(dec.trace), n))
                      = Cardinality(CachedBefore(dec.trace, Len(dec.trace) + 1, n))
                /\ CachedBefore(dec.trace, Len(dec.trace) + 1, n) # {}
                      => /\ HasKey(dec.cache, n)
                         /\ ItemOf(dec.cache, n).value
                               = dec.trace[LastOf(CachedBefore(dec.trace, Len(dec.trace) + 1, n))].obj

\* a decode completed in which one entry was given a body and a later entry
\* of the same identifier was taken from the cache
C24_Witness ==
    /\ phase = "decoded"
    /\ dec.exc = ""
    /\ \E i \in CachingBodies(dec.trace), j \in Events(dec.trace) :
          i < j /\ dec.trace[j].ev = "hit" /\ dec.trace[j].n = dec.trace[i].n

\* the events at which _ObjectReferenceDecoder._decode was entered
ReferenceBodies ==
    {j \in Events(dec.trace) :
        dec.trace[j].ev = "body" /\ dec.trace[j].h = "ObjectReferenceDecoder"}

\* the target identifiers of the ObjectReference entries of the payload whose
\* own identifier is n
TargetsOf(n) ==
    {EncodedPayloads[x].body.n :
        x \in {y \in 1..Len(EncodedPayloads) :
                  /\ IsReference(EncodedPayloads[y])
                  /\ EncodedPayloads[y].id = n}}

\* the entries of the payload with a full body and an identifier
FullBodies ==
    {x \in 1..Len(EncodedPayloads) :
        EncodedPayloads[x].tracked /\ ~IsReference(EncodedPayloads[x])}

\* what followed the body entered at j: KeyError, or the instance that was
\* in the cache under the target identifier
CachedOrFailed(j) ==
    /\ j < Len(dec.trace)
    /\ IF dec.trace[j + 1].ev = "raise"
       THEN dec.trace[j + 1].exc = "KeyError" /\ dec.exc = "KeyError"
       ELSE /\ dec.trace[j + 1].ev = "cache"
            /\ dec.trace[j + 1].n = dec.trace[j].n
            /\ \A t \in TargetsOf(dec.trace[j].n) :
                  /\ CachedBefore(dec.trace, j, t) # {}
                  /\ dec.trace[j + 1].obj = dec.trace[LastOf(CachedBefore(dec.trace, j, t))].obj

\* C25: decoding an ObjectReference payload constructs nothing: it gives the
\* instance that is in the cache under the target identifier, or fails; and
\* a decode constructs no more objects than the payload has full bodies
C25_ReferenceNeverConstructs ==
    /\ \A j \in ReferenceBodies : TargetsOf(dec.trace[j].n) # {} /\ CachedOrFailed(j)
    /\ phase = "decoded" => Len(dec.heap) <= Cardinality(FullBodies)

\* a decode completed that went through an ObjectReference payload and
\* constructed objects
C25_Witness ==
    /\ phase = "decoded"
    /\ dec.exc = ""
    /\ ReferenceBodies # {}
    /\ dec.heap # <<>>

-----------------------------------------------------------------------------
(* Claims on identifiers *)

\* C26: within one encode call with the default MonotonicID, two calls of
\* the provider for two distinct objects give two identifiers, whether the
\* objects are the program's or _ObjectReference objects made and dropped
\* while encoding: an address taken again does not give the new object the
\* identifier of the one that had it before
C26_DistinctObjectsDistinctIds ==
    enc.id_provider = "MonotonicID" =>
        \A i \in IdCalls, j \in IdCalls :
            ~SameInstance(enc.trace[i], enc.trace[j]) => enc.trace[i].n # enc.trace[j].n

-----------------------------------------------------------------------------
(* Claims on mappings *)

\* encode was called on a dict
RootIsMapping == root.k = "ref" /\ heap[root.v].t = "dict"

\* the identifiers the provider gave the value in the encode call tree
IdsOf(v) == {enc.trace[i].n : i \in {j \in IdCalls : enc.trace[j].obj = v}}

\* the payload is what an Encoder gave for the value: its literal, its full
\* body under its identifier, or an ObjectReference to its identifier
Denotes(p, v) ==
    IF ~p.tracked
    THEN IF v.k = "type" THEN p.body.s = get_fully_qualified_name(v.n)
         ELSE p.body.shape = "lit" /\ p.body.lit = v
    ELSE IF IsReference(p) THEN p.body.n \in IdsOf(v)
    ELSE p.id \in IdsOf(v) /\ p.tn = get_fully_qualified_name(TypeOf(heap, v))

\* the body of the dict's entry: nothing, or the keys' payloads and the
\* values' payloads, entry by entry
PairedRows ==
    IF heap[root.v].keys = <<>> THEN enc.payload.body.rows = <<>>
    ELSE /\ Len(enc.payload.body.rows) = 2
         /\ Len(enc.payload.body.rows[1]) = Len(heap[root.v].keys)
         /\ Len(enc.payload.body.rows[2]) = Len(heap[root.v].keys)
         /\ \A i \in 1..Len(heap[root.v].keys) :
               /\ Denotes(enc.payload.body.rows[1][i], heap[root.v].keys[i])
               /\ Denotes(enc.payload.body.rows[2][i], heap[root.v].items[i])

\* decode gave a dict that has, for every entry of the source, an entry of an
\* equal key with an equal value, and no more entries
SameAssociation ==
    /\ dec.exc = ""
    /\ dec.val.k = "ref"
    /\ dec.heap[dec.val.v].t = "dict"
    /\ Len(dec.heap[dec.val.v].keys) = Len(heap[root.v].keys)
    /\ \A i \in 1..Len(heap[root.v].keys) :
          \E j \in 1..Len(dec.heap[dec.val.v].keys) :
              /\ StructEq(heap, heap[root.v].keys[i],
                          dec.heap, dec.heap[dec.val.v].keys[j], Len(heap) + 2)
              /\ StructEq(heap, heap[root.v].items[i],
                          dec.heap, dec.heap[dec.val.v].items[j], Len(heap) + 2)

\* C27: the body of an encoded mapping is empty for the empty mapping and
\* otherwise two lists of one length, the i-th key's payload and the i-th
\* value's payload being of one entry; decode pairs them by position and
\* gives a mapping with the same keys for the same values
C27_MappingPairing ==
    RootIsMapping /\ SupportedCall /\ phase # "build" /\ enc.exc = ""
        => /\ PairedRows
           /\ phase = "decoded" /\ PlainDecode => SameAssociation

-----------------------------------------------------------------------------
(* Claims on the state one call tree shares *)

\* the identifiers under which the Encoders of the call tree stored an entry
StoredIds == {enc.trace[i].n : i \in {j \in Events(enc.trace) : enc.trace[j].ev = "store"}}

\* the identifiers under which the Decoders of the call tree stored an instance
CachedIds == {dec.trace[i].n : i \in {j \in Events(dec.trace) : dec.trace[j].ev = "cache"}}

\* C28: the table the outermost Encoder ends with holds what every Encoder
\* of its call tree stored and the root entry, and nothing of another call;
\* every identifier of the call tree came from the one provider of the
\* outermost Encoder, which starts at 0 when it is the call's own MonotonicID;
\* the cache the outermost Decoder ends with holds what every Decoder of its
\* call tree stored, and nothing else
C28_SharedWithinOneCall ==
    /\ phase # "build" =>
          /\ StoredIds \subseteq SeqToSet(RegKeys(enc.data))
          /\ SeqToSet(RegKeys(enc.data)) \subseteq StoredIds \cup {enc.id}
          /\ enc.exc = "" => enc.id \in SeqToSet(RegKeys(enc.data))
          /\ IF enc.id_provider = "MonotonicID"
             THEN /\ SeqToSet(RegKeys(enc.objects)) = {enc.trace[i].obj : i \in IdCalls}
                  /\ {enc.trace[i].n : i \in IdCalls} = 0..(Len(enc.objects) - 1)
             ELSE /\ enc.objects = <<>>
                  /\ \A i \in IdCalls : enc.trace[i].n = builtin_id(enc.trace[i].obj)
    /\ phase = "decoded" => SeqToSet(RegKeys(dec.cache)) = CachedIds

\* an Encoder took the ObjectReference path for an entry another Encoder of
\* the call tree had stored, and the Decoders took the instance from the
\* cache another had stored it in
C28_Witness ==
    /\ phase = "decoded"
    /\ dec.exc = ""
    /\ \E i \in 1..Len(EncodedPayloads) : IsReference(EncodedPayloads[i])
    /\ Cardinality(StoredIds) >= 3
    /\ Cardinality(CachedIds) >= 3

\* the calls of the identity provider for a primitive
PrimitiveCalls == {i \in IdCalls : enc.trace[i].obj.k = "prim"}

\* C29: encoding a primitive does not call the identity provider: no call
\* of get_id in an encode call tree is for a str, int, float, bool or None,
\* so none is given an identifier and none advances the MonotonicID counter
C29_PrimitivesBypassProvider ==
    /\ PrimitiveCalls = {}
    /\ PrimitiveIds = {}

-----------------------------------------------------------------------------
(* Claims on the registry: one inheritance path *)

\* the pairs of registered keys on one inheritance path of c: both are c or
\* an ancestor of c, and the first is a proper subclass of the second
OnOnePath(reg, c) ==
    {p \in RegisteredAncestors(reg, c) \X RegisteredAncestors(reg, c) :
        ProperSubclass(p[1], p[2])}

\* C30: when registered keys K1 and K2 are both the candidate or an ancestor
\* of it and K1 is a proper subclass of K2, a closest-relative lookup of the
\* candidate, under any constraining base, does not find K2: the handler it
\* gives is the one registered for a key that no registered relative of the
\* candidate derives from
C30_MoreDerivedAncestorWins ==
    (lookup.op = "closest" /\ unbind_generics(lookup.cand) \in Types /\ lookup.exc = "") =>
        /\ lookup.handler = ItemOf(treg, lookup.key).value
        /\ \A p \in OnOnePath(treg, unbind_generics(lookup.cand)) : lookup.key # p[2]

\* C30 witness: A registered before DDA with another handler, DM looked up:
\* both are ancestors of DM, DDA derives from A, and DDA's handler is given
C30_Witness ==
    /\ lookup.op = "closest" /\ lookup.cand = "DM" /\ lookup.base = NoBase
    /\ RegKeys(treg) = <<"A", "DDA">>
    /\ ItemOf(treg, "A").value # ItemOf(treg, "DDA").value
    /\ lookup.exc = "" /\ lookup.key = "DDA"
    /\ lookup.handler = ItemOf(treg, "DDA").value

-----------------------------------------------------------------------------
(* Claims on the registry: ties *)

\* the place of a registered key in the registration order
PlaceOf(reg, k) == CHOOSE i \in 1..Len(reg) : reg[i].key = k

\* the first registered of the keys in Q that are greatest by the measure
FirstGreatest(reg, Q, measure(_)) ==
    CHOOSE k \in Q :
        /\ \A o \in Q : measure(k) >= measure(o)
        /\ \A o \in Q : measure(o) = measure(k) => PlaceOf(reg, k) <= PlaceOf(reg, o)

\* C31 as stated: the lookup is a function of the registry's items in their
\* order, of the candidate and of the base, and of the deepest matching keys
\* it gives the one registered first
C31_Original_FirstOfDeepest ==
    (lookup.op = "closest" /\ unbind_generics(lookup.cand) \in Types /\ lookup.exc = "") =>
        LET Q == Qualifying(treg, unbind_generics(lookup.cand), lookup.base)
        IN  /\ Q # {}
            /\ lookup.key = FirstGreatest(treg, Q, Depth)
            /\ lookup.handler = ItemOf(treg, lookup.key).value

\* C31 amended: the lookup is a function of the registry's items in their
\* order, of the candidate and of the base: of the matching keys with the most
\* ancestors counted once per inheritance path it gives the one registered
\* first, which is the first registered of the deepest ones when the
\* candidate's ancestry is single inheritance throughout
C31_FirstOfMostAncestorOccurrences ==
    (lookup.op = "closest" /\ unbind_generics(lookup.cand) \in Types /\ lookup.exc = "") =>
        LET c == unbind_generics(lookup.cand)
            Q == Qualifying(treg, c, lookup.base)
        IN  /\ Q # {}
            /\ lookup.key = FirstGreatest(treg, Q, AncestorOccurrences)
            /\ lookup.handler = ItemOf(treg, lookup.key).value
            /\ SingleInheritance(c) => lookup.key = FirstGreatest(treg, Q, Depth)

\* C31 witness: B registered before A, both bases of M and equal by either
\* measure; the lookup of M gives B and B's handler
C31_Witness ==
    /\ lookup.op = "closest" /\ lookup.cand = "M" /\ lookup.base = NoBase
    /\ RegKeys(treg) = <<"B", "A">>
    /\ ItemOf(treg, "A").value # ItemOf(treg, "B").value
    /\ lookup.exc = "" /\ lookup.key = "B"
    /\ lookup.handler = ItemOf(treg, "B").value

-----------------------------------------------------------------------------
(* SpecDelivery: one AsynchronousDelivery; threads of the program call      *)
(* update(), one step of each call and of each delivery thread at a time;   *)
(* await_delivery and cancel are called at any moment.                      *)

\* most update() calls of one program
MaxPosts == 2

InitDelivery ==
    /\ canceled = FALSE
    /\ data_lock = NoThread
    /\ data_queue = <<>>
    /\ delivery_thread = NoThread
    /\ queue_empty_event = FALSE
    /\ \E p \in UpdatePolicies, r \in SUBSET Values :
          observer = [policy |-> p, last |-> UNCHANGED_SENTINEL, raises |-> r]
    /\ updating = [u \in Updaters |-> [pc |-> "idle", item |-> NoItem]]
    /\ delivering = <<>>
    /\ posted = <<>>
    /\ handed = <<>>
    /\ returned = {}
    /\ awaited = NoAwait
    /\ CoreIdle
    /\ OverrideIdle
    /\ ReferenceCountedIdle

Handed(to, item, out) == [to |-> to, item |-> item, out |-> out]

\* the items requires_update said no to, on_update returned for, or on_error got
Processed ==
    {handed[i].item.n : i \in {j \in 1..Len(handed) :
        \/ handed[j].to = "requires_update" /\ handed[j].out = "False"
        \/ handed[j].to = "on_update" /\ handed[j].out = "returned"
        \/ handed[j].to = "on_error"}}

UpdaterAt(u, pc) == updating[u].pc = pc

UpdaterTo(u, pc) == updating' = [updating EXCEPT ![u].pc = pc]

\* update(value): self._data_queue.append(value)
UpdateAppend ==
    \E u \in Updaters, v \in Values :
        /\ UpdaterAt(u, "idle")
        /\ Len(posted) < MaxPosts
        /\ LET item == [v |-> v, n |-> Len(posted) + 1]
           IN  /\ data_queue' = Append(data_queue, item)
               /\ posted' = Append(posted, item)
               /\ updating' = [updating EXCEPT ![u] = [pc |-> "acquire", item |-> item]]
        /\ UNCHANGED <<canceled, data_lock, delivery_thread, queue_empty_event, observer,
                       delivering, handed, returned, awaited>>
        /\ UNCHANGED <<regVars, locVars, tcVars, rhVars, ovVars, rcVars>>

\* update: with self._data_lock
UpdateAcquire ==
    \E u \in Updaters :
        /\ UpdaterAt(u, "acquire")
        /\ data_lock = NoThread
        /\ data_lock' = u
        /\ UpdaterTo(u, "clear")
        /\ UNCHANGED <<canceled, data_queue, delivery_thread, queue_empty_event, observer,
                       delivering, posted, handed, returned, awaited>>
        /\ UNCHANGED <<regVars, locVars, tcVars, rhVars, ovVars, rcVars>>

\* update: self._queue_empty_event.clear()
UpdateClear ==
    \E u \in Updaters :
        /\ UpdaterAt(u, "clear")
        /\ queue_empty_event' = FALSE
        /\ UpdaterTo(u, "start")
        /\ UNCHANGED <<canceled, data_lock, data_queue, delivery_thread, observer,
                       delivering, posted, handed, returned, awaited>>
        /\ UNCHANGED <<regVars, locVars, tcVars, rhVars, ovVars, rcVars>>

\* update: if not self._delivery_thread, make the thread and start it
UpdateStart ==
    \E u \in Updaters :
        /\ UpdaterAt(u, "start")
        /\ IF no_delivery_thread(delivery_thread)
           THEN /\ delivery_thread' = DeliveryThread(Len(delivering) + 1)
                /\ delivering' = Append(delivering, [pc |-> "while", item |-> NoItem])
           ELSE UNCHANGED <<delivery_thread, delivering>>
        /\ UpdaterTo(u, "release")
        /\ UNCHANGED <<canceled, data_lock, data_queue, queue_empty_event, observer,
                       posted, handed, returned, awaited>>
        /\ UNCHANGED <<regVars, locVars, tcVars, rhVars, ovVars, rcVars>>

\* update: the with block is left and update returns
UpdateRelease ==
    \E u \in Updaters :
        /\ UpdaterAt(u, "release")
        /\ data_lock' = NoThread
        /\ returned' = returned \cup {updating[u].item.n}
        /\ updating' = [updating EXCEPT ![u] = [pc |-> "idle", item |-> NoItem]]
        /\ UNCHANGED <<canceled, data_queue, delivery_thread, queue_empty_event, observer,
                       delivering, posted, handed, awaited>>
        /\ UNCHANGED <<regVars, locVars, tcVars, rhVars, ovVars, rcVars>>

DeliveryAt(k, pc) == delivering[k].pc = pc

DeliveryTo(k, pc) == delivering' = [delivering EXCEPT ![k].pc = pc]

\* _deliver_queue: while not self._canceled
DeliverWhile ==
    \E k \in 1..Len(delivering) :
        /\ DeliveryAt(k, "while")
        /\ DeliveryTo(k, IF canceled THEN "returned" ELSE "popleft")
        /\ UNCHANGED <<canceled, data_lock, data_queue, delivery_thread, queue_empty_event,
                       observer, updating, posted, handed, returned, awaited>>
        /\ UNCHANGED <<regVars, locVars, tcVars, rhVars, ovVars, rcVars>>

\* _deliver_queue: value = self._data_queue.popleft(), or IndexError
DeliverPopleft ==
    \E k \in 1..Len(delivering) :
        /\ DeliveryAt(k, "popleft")
        /\ IF data_queue # <<>>
           THEN LET got == deque_popleft(data_queue)
                IN  /\ data_queue' = got.rest
                    /\ delivering' = [delivering EXCEPT ![k] =
                                        [pc |-> "requires_update", item |-> got.item]]
           ELSE /\ DeliveryTo(k, "acquire")
                /\ UNCHANGED data_queue
        /\ UNCHANGED <<canceled, data_lock, delivery_thread, queue_empty_event, observer,
                       updating, posted, handed, returned, awaited>>
        /\ UNCHANGED <<regVars, locVars, tcVars, rhVars, ovVars, rcVars>>

\* _deliver_queue: if self._update_policy.requires_update(value)
DeliverRequiresUpdate ==
    \E k \in 1..Len(delivering) :
        /\ DeliveryAt(k, "requires_update")
        /\ LET item == delivering[k].item
               r == requires_update(observer.policy, observer.last, item.v)
           IN  /\ observer' = [observer EXCEPT !.last = r.last]
               /\ handed' = Append(handed, Handed("requires_update", item,
                                                  IF r.result THEN "True" ELSE "False"))
               /\ delivering' = [delivering EXCEPT ![k] =
                                    IF r.result THEN [pc |-> "on_update", item |-> item]
                                    ELSE [pc |-> "while", item |-> NoItem]]
        /\ UNCHANGED <<canceled, data_lock, data_queue, delivery_thread, queue_empty_event,
                       updating, posted, returned, awaited>>
        /\ UNCHANGED <<regVars, locVars, tcVars, rhVars, ovVars, rcVars>>

\* _deliver_queue: self._on_update(value), which returns or raises
DeliverOnUpdate ==
    \E k \in 1..Len(delivering) :
        /\ DeliveryAt(k, "on_update")
        /\ LET item == delivering[k].item
               raises == item.v \in observer.raises
           IN  /\ handed' = Append(handed, Handed("on_update", item,
                                                  IF raises THEN "raised" ELSE "returned"))
               /\ delivering' = [delivering EXCEPT ![k] =
                                    IF raises THEN [pc |-> "on_error", item |-> item]
                                    ELSE [pc |-> "while", item |-> NoItem]]
        /\ UNCHANGED <<canceled, data_lock, data_queue, delivery_thread, queue_empty_event,
                       observer, updating, posted, returned, awaited>>
        /\ UNCHANGED <<regVars, locVars, tcVars, rhVars, ovVars, rcVars>>

\* _deliver_queue: except Exception as e: self._on_error(value, e)
DeliverOnError ==
    \E k \in 1..Len(delivering) :
        /\ DeliveryAt(k, "on_error")
        /\ handed' = Append(handed, Handed("on_error", delivering[k].item, "returned"))
        /\ delivering' = [delivering EXCEPT ![k] = [pc |-> "while", item |-> NoItem]]
        /\ UNCHANGED <<canceled, data_lock, data_queue, delivery_thread, queue_empty_event,
                       observer, updating, posted, returned, awaited>>
        /\ UNCHANGED <<regVars, locVars, tcVars, rhVars, ovVars, rcVars>>

\* _deliver_queue: except IndexError: with self._data_lock
DeliverAcquire ==
    \E k \in 1..Len(delivering) :
        /\ DeliveryAt(k, "acquire")
        /\ data_lock = NoThread
        /\ data_lock' = DeliveryThread(k)
        /\ DeliveryTo(k, "recheck")
        /\ UNCHANGED <<canceled, data_queue, delivery_thread, queue_empty_event, observer,
                       updating, posted, handed, returned, awaited>>
        /\ UNCHANGED <<regVars, locVars, tcVars, rhVars, ovVars, rcVars>>

\* _deliver_queue: if self._data_queue: continue, which leaves the with block
DeliverRecheck ==
    \E k \in 1..Len(delivering) :
        /\ DeliveryAt(k, "recheck")
        /\ IF queue_refilled(data_queue)
           THEN /\ data_lock' = NoThread
                /\ DeliveryTo(k, "while")
           ELSE /\ DeliveryTo(k, "set")
                /\ UNCHANGED data_lock
        /\ UNCHANGED <<canceled, data_queue, delivery_thread, queue_empty_event, observer,
                       updating, posted, handed, returned, awaited>>
        /\ UNCHANGED <<regVars, locVars, tcVars, rhVars, ovVars, rcVars>>

\* _deliver_queue: self._queue_empty_event.set()
DeliverSet ==
    \E k \in 1..Len(delivering) :
        /\ DeliveryAt(k, "set")
        /\ queue_empty_event' = TRUE
        /\ DeliveryTo(k, "forget")
        /\ UNCHANGED <<canceled, data_lock, data_queue, delivery_thread, observer,
                       updating, posted, handed, returned, awaited>>
        /\ UNCHANGED <<regVars, locVars, tcVars, rhVars, ovVars, rcVars>>

\* _deliver_queue: self._delivery_thread = None
DeliverForget ==
    \E k \in 1..Len(delivering) :
        /\ DeliveryAt(k, "forget")
        /\ delivery_thread' = NoThread
        /\ DeliveryTo(k, "return")
        /\ UNCHANGED <<canceled, data_lock, data_queue, queue_empty_event, observer,
                       updating, posted, handed, returned, awaited>>
        /\ UNCHANGED <<regVars, locVars, tcVars, rhVars, ovVars, rcVars>>

\* _deliver_queue: return, which leaves the with block and ends the thread
DeliverReturn ==
    \E k \in 1..Len(delivering) :
        /\ DeliveryAt(k, "return")
        /\ data_lock' = NoThread
        /\ DeliveryTo(k, "returned")
        /\ UNCHANGED <<canceled, data_queue, delivery_thread, queue_empty_event, observer,
                       updating, posted, handed, returned, awaited>>
        /\ UNCHANGED <<regVars, locVars, tcVars, rhVars, ovVars, rcVars>>

\* await_delivery(timeout): Event.wait gives True when the flag is, or comes
\* to be, set within the timeout and False when the timeout ends without
AwaitDelivery ==
    /\ awaited' = [res |-> IF queue_empty_event THEN "True" ELSE "False",
                   pending |-> returned \ Processed, posts |-> Len(posted)]
    /\ UNCHANGED <<canceled, data_lock, data_queue, delivery_thread, queue_empty_event,
                   observer, updating, delivering, posted, handed, returned>>
    /\ UNCHANGED <<regVars, locVars, tcVars, rhVars, ovVars, rcVars>>

\* cancel(): self._canceled = True
Cancel ==
    /\ ~canceled
    /\ canceled' = TRUE
    /\ UNCHANGED <<data_lock, data_queue, delivery_thread, queue_empty_event,
                   observer, updating, delivering, posted, handed, returned, awaited>>
    /\ UNCHANGED <<regVars, locVars, tcVars, rhVars, ovVars, rcVars>>

UpdateStep == UpdateAcquire \/ UpdateClear \/ UpdateStart \/ UpdateRelease

DeliverStep ==
    \/ DeliverWhile \/ DeliverPopleft \/ DeliverRequiresUpdate \/ DeliverOnUpdate
    \/ DeliverOnError \/ DeliverAcquire \/ DeliverRecheck \/ DeliverSet
    \/ DeliverForget \/ DeliverReturn

NextDelivery == UpdateAppend \/ UpdateStep \/ DeliverStep \/ AwaitDelivery \/ Cancel

SpecDelivery == InitDelivery /\ [][NextDelivery]_vars

\* the threads are scheduled and the callbacks return: a call of update()
\* that has begun goes on, and so does a delivery thread
SpecDeliveryFair ==
    /\ SpecDelivery
    /\ WF_vars(UpdateStep)
    /\ WF_vars(DeliverStep)

-----------------------------------------------------------------------------
(* Claims on AsynchronousDelivery *)

\* the calls made to one of requires_update, on_update, on_error, in order
HandedTo(to) == LET Is(h) == h.to = to IN SelectSeq(handed, Is)

\* the calls of requires_update that said the value requires an update
Required == LET Is(h) == h.to = "requires_update" /\ h.out = "True" IN SelectSeq(handed, Is)

IsPrefix(s, t) == Len(s) <= Len(t) /\ \A i \in 1..Len(s) : s[i] = t[i]

ItemsOf(hs) == [i \in 1..Len(hs) |-> hs[i].item]

\* requires_update got the items in the order of their appends, each once,
\* and on_update got, in that order and each once, those it said yes to
DeliveredInOrder ==
    /\ IsPrefix(ItemsOf(HandedTo("requires_update")), posted)
    /\ IsPrefix(ItemsOf(HandedTo("on_update")), ItemsOf(Required))

\* the n-th item was handed to requires_update and, if it requires an
\* update, to on_update
HandedOver(n) ==
    \E i \in 1..Len(handed) :
        /\ handed[i].to = "requires_update" /\ handed[i].item.n = n
        /\ handed[i].out = "True" =>
              \E j \in 1..Len(handed) : handed[j].to = "on_update" /\ handed[j].item.n = n

C33_AwaitDelivery ==
    /\ awaited.res = "True" => (awaited.pending = {} /\ awaited.posts > 0)
    /\ (awaited.res # "none" /\ (awaited.pending # {} \/ awaited.posts = 0)) =>
          awaited.res = "False"

\* C33 witness: await_delivery gave True after two values of which one was
\* raised into on_error and one was filtered by the update policy
C33_Witness ==
    /\ awaited.res = "True"
    /\ awaited.posts = 2
    /\ returned = {1, 2}
    /\ Len(HandedTo("on_error")) = 1
    /\ \E i \in 1..Len(handed) : handed[i].to = "requires_update" /\ handed[i].out = "False"

\* C33 witness: await_delivery gave False while a value was pending after one
\* had been delivered
C33_WitnessPending ==
    /\ awaited.res = "False"
    /\ awaited.pending = {2}
    /\ 1 \in Processed

\* the delivery threads that have been started and have not returned
InLoop == {k \in 1..Len(delivering) : delivering[k].pc # "returned"}

\* the delivery threads that have found the queue empty under the lock
Exiting == {k \in 1..Len(delivering) : delivering[k].pc \in {"set", "forget", "return"}}

\* the update() calls that have appended and not yet looked for the thread
Starting == {u \in Updaters : updating[u].pc \in {"acquire", "clear", "start"}}

C34_WitnessNewLoop ==
    /\ Len(delivering) = 2
    /\ delivering[1].pc = "returned"
    /\ delivering[2].pc = "on_update"
    /\ delivering[2].item.n = 2
    /\ Len(HandedTo("requires_update")) = 2

-----------------------------------------------------------------------------
(* SpecOverride: the threads of a program enter and leave with-blocks of    *)
(* trait.override(instance) and Trait.override_all(OverrideTester), one     *)
(* line of __enter__ or __exit__ at a time, and call the trait's method in  *)
(* the blocks and outside.                                                  *)

\* most Override objects one program makes
MaxOverrideObjs == 3

InitOverride ==
    /\ target_attr = 0
    /\ scope_locks = [s \in OverrideScopes |-> NoLock]
    /\ rlocks = <<>>
    /\ override_objs = <<>>
    /\ ovthreads = [t \in Threads |-> [scopes |-> <<>>, ops |-> <<>>, lock |-> 0, count |-> 0,
                                       exc |-> "", left |-> 0]]
    /\ called = NoOverriddenCall
    /\ CoreIdle
    /\ DeliveryIdle
    /\ ReferenceCountedIdle

Op(op, o) == [op |-> op, o |-> o]

\* Override.__enter__ of the object o, line by line
EnterOps(o) ==
    <<Op("_locks[scope]", o), Op("acquire", o), Op("count += 1", o),
      Op("_thread_id = id", o), Op("_apply", o)>>

\* Override.__exit__ of the object o, line by line
ExitOps(o) ==
    <<Op("_thread_id = None", o), Op("_revert", o), Op("count -= 1", o), Op("release", o)>>

\* _TypeOverride.__enter__ of o, whose _apply enters its one property override
TypeEnterOps(o, po) == SubSeq(EnterOps(o), 1, 4) \o EnterOps(po)

\* _TypeOverride.__exit__ of o, whose _revert leaves its property override
TypeExitOps(o, po) ==
    <<Op("_thread_id = None", o)>> \o ExitOps(po) \o SubSeq(ExitOps(o), 3, 4)

\* a new Override object; by is the thread that made it, which no code reads
NewOverride(kind, scope, t) ==
    [kind |-> kind, scope |-> scope, thread_id |-> NoThread, by |-> t]

Running(t) == ovthreads[t].exc = ""

InBody(t) == Running(t) /\ ovthreads[t].ops = <<>>

NextOp(t, op) ==
    /\ Running(t)
    /\ ovthreads[t].ops # <<>>
    /\ Head(ovthreads[t].ops).op = op

\* the thread holds an override that is for the instance
Covered(t, instance) ==
    \E k \in 1..Len(ovthreads[t].scopes) :
        LET o == override_objs[ovthreads[t].scopes[k]]
        IN  \/ o.kind = "_TypeOverride"
            \/ o.kind = "_InstanceOverride" /\ o.scope = instance

\* with trait.override(instance): the _InstanceOverride is made, __enter__ begins
WithInstance ==
    \E t \in Threads, i \in Instances :
        /\ InBody(t)
        /\ Len(override_objs) < MaxOverrideObjs
        /\ LET o == Len(override_objs) + 1
           IN  /\ override_objs' = Append(override_objs, NewOverride("_InstanceOverride", i, t))
               /\ ovthreads' = [ovthreads EXCEPT ![t].scopes = Append(@, o),
                                                 ![t].ops = EnterOps(o)]
        /\ UNCHANGED <<target_attr, scope_locks, rlocks, called>>
        /\ UNCHANGED <<regVars, locVars, tcVars, rhVars, adVars, rcVars>>

\* with Trait.override_all(OverrideTester): the _TypeOverride and the Override
\* of the property's trait are made, __enter__ begins
WithAll ==
    \E t \in Threads :
        /\ InBody(t)
        /\ Len(override_objs) + 1 < MaxOverrideObjs
        /\ LET o == Len(override_objs) + 1
           IN  /\ override_objs' = override_objs \o
                     <<NewOverride("_TypeOverride", "OverrideTester", t),
                       NewOverride("Override", "p", t)>>
               /\ ovthreads' = [ovthreads EXCEPT ![t].scopes = Append(@, o),
                                                 ![t].ops = TypeEnterOps(o, o + 1)]
        /\ UNCHANGED <<target_attr, scope_locks, rlocks, called>>
        /\ UNCHANGED <<regVars, locVars, tcVars, rhVars, adVars, rcVars>>

\* the innermost with-block of the thread is left: __exit__ begins
Leave ==
    \E t \in Threads :
        /\ InBody(t)
        /\ ovthreads[t].scopes # <<>>
        /\ LET n == Len(ovthreads[t].scopes)
               o == ovthreads[t].scopes[n]
           IN  ovthreads' = [ovthreads EXCEPT
                   ![t].scopes = SubSeq(@, 1, n - 1),
                   ![t].left = IF n = 1 THEN 0 ELSE 1,
                   ![t].ops = IF override_objs[o].kind = "_TypeOverride"
                              THEN TypeExitOps(o, o + 1) ELSE ExitOps(o)]
        /\ UNCHANGED <<target_attr, scope_locks, rlocks, override_objs, called>>
        /\ UNCHANGED <<regVars, locVars, tcVars, rhVars, adVars, rcVars>>

\* _lock_scope: lock, count = self._locks[self._scope]
LockRead ==
    \E t \in Threads :
        /\ NextOp(t, "_locks[scope]")
        /\ LET o == Head(ovthreads[t].ops).o
               got == locks_getitem(scope_locks, rlocks, override_objs[o].scope)
           IN  /\ scope_locks' = got.locks
               /\ rlocks' = got.rlocks
               /\ ovthreads' = [ovthreads EXCEPT ![t].ops = Tail(@),
                                                 ![t].lock = got.entry.lock,
                                                 ![t].count = got.entry.count]
        /\ UNCHANGED <<target_attr, override_objs, called>>
        /\ UNCHANGED <<regVars, locVars, tcVars, rhVars, adVars, rcVars>>

\* _lock_scope: lock.acquire(), which waits while another thread owns the RLock
LockAcquire ==
    \E t \in Threads :
        /\ NextOp(t, "acquire")
        /\ LET l == ovthreads[t].lock
           IN  /\ rlocks[l].owner \in {NoThread, t}
               /\ rlocks' = [rlocks EXCEPT ![l] = [owner |-> t, depth |-> @.depth + 1]]
        /\ ovthreads' = [ovthreads EXCEPT ![t].ops = Tail(@)]
        /\ UNCHANGED <<target_attr, scope_locks, override_objs, called>>
        /\ UNCHANGED <<regVars, locVars, tcVars, rhVars, adVars, rcVars>>

\* _lock_scope: count += 1; self._locks[self._scope] = (lock, count)
LockStore ==
    \E t \in Threads :
        /\ NextOp(t, "count += 1")
        /\ LET o == Head(ovthreads[t].ops).o
           IN  scope_locks' = [scope_locks EXCEPT ![override_objs[o].scope] =
                                  [lock |-> ovthreads[t].lock, count |-> ovthreads[t].count + 1]]
        /\ ovthreads' = [ovthreads EXCEPT ![t].ops = Tail(@)]
        /\ UNCHANGED <<target_attr, rlocks, override_objs, called>>
        /\ UNCHANGED <<regVars, locVars, tcVars, rhVars, adVars, rcVars>>

\* __enter__: self._thread_id = _current_thread_id()
SetThreadId ==
    \E t \in Threads :
        /\ NextOp(t, "_thread_id = id")
        /\ override_objs' = [override_objs EXCEPT ![Head(ovthreads[t].ops).o].thread_id = t]
        /\ ovthreads' = [ovthreads EXCEPT ![t].ops = Tail(@)]
        /\ UNCHANGED <<target_attr, scope_locks, rlocks, called>>
        /\ UNCHANGED <<regVars, locVars, tcVars, rhVars, adVars, rcVars>>

\* Override._apply: setattr(self.subject, target name, self._override)
Apply ==
    \E t \in Threads :
        /\ NextOp(t, "_apply")
        /\ target_attr' = Head(ovthreads[t].ops).o
        /\ ovthreads' = [ovthreads EXCEPT ![t].ops = Tail(@)]
        /\ UNCHANGED <<scope_locks, rlocks, override_objs, called>>
        /\ UNCHANGED <<regVars, locVars, tcVars, rhVars, adVars, rcVars>>

\* __exit__: self._thread_id = None
UnsetThreadId ==
    \E t \in Threads :
        /\ NextOp(t, "_thread_id = None")
        /\ override_objs' = [override_objs EXCEPT ![Head(ovthreads[t].ops).o].thread_id = NoThread]
        /\ ovthreads' = [ovthreads EXCEPT ![t].ops = Tail(@)]
        /\ UNCHANGED <<target_attr, scope_locks, rlocks, called>>
        /\ UNCHANGED <<regVars, locVars, tcVars, rhVars, adVars, rcVars>>

\* Override._revert: setattr(self.subject, target name, self.subject._override_target)
Revert ==
    \E t \in Threads :
        /\ NextOp(t, "_revert")
        /\ target_attr' = 0
        /\ ovthreads' = [ovthreads EXCEPT ![t].ops = Tail(@)]
        /\ UNCHANGED <<scope_locks, rlocks, override_objs, called>>
        /\ UNCHANGED <<regVars, locVars, tcVars, rhVars, adVars, rcVars>>

\* _release_scope: lock, count = self._locks[self._scope]; count -= 1; the
\* entry is popped when count is 0 and stored otherwise
ReleaseCount ==
    \E t \in Threads :
        /\ NextOp(t, "count -= 1")
        /\ LET o == Head(ovthreads[t].ops).o
               scope == override_objs[o].scope
               got == locks_getitem(scope_locks, rlocks, scope)
               count == got.entry.count - 1
           IN  /\ scope_locks' = [got.locks EXCEPT ![scope] =
                                     IF count = 0 THEN NoLock
                                     ELSE [lock |-> got.entry.lock, count |-> count]]
               /\ rlocks' = got.rlocks
               /\ ovthreads' = [ovthreads EXCEPT ![t].ops = Tail(@),
                                                 ![t].lock = got.entry.lock,
                                                 ![t].count = count]
        /\ UNCHANGED <<target_attr, override_objs, called>>
        /\ UNCHANGED <<regVars, locVars, tcVars, rhVars, adVars, rcVars>>

\* _release_scope: lock.release(), RuntimeError when the thread does not own it
ReleaseLock ==
    \E t \in Threads :
        /\ NextOp(t, "release")
        /\ LET l == ovthreads[t].lock
           IN  IF rlocks[l].owner = t
               THEN /\ rlocks' = [rlocks EXCEPT ![l] =
                                     [owner |-> IF @.depth = 1 THEN NoThread ELSE t,
                                      depth |-> @.depth - 1]]
                    /\ ovthreads' = [ovthreads EXCEPT ![t].ops = Tail(@)]
               ELSE /\ ovthreads' = [ovthreads EXCEPT ![t].ops = <<>>, ![t].exc = "RuntimeError"]
                    /\ UNCHANGED rlocks
        /\ UNCHANGED <<target_attr, scope_locks, override_objs, called>>
        /\ UNCHANGED <<regVars, locVars, tcVars, rhVars, adVars, rcVars>>

\* the trait's method is called for an instance, in the blocks or outside
CallTrait ==
    \E t \in Threads, i \in Instances :
        /\ InBody(t)
        /\ called' = [thread |-> t, instance |-> i,
                      ran |-> trait_call(target_attr, override_objs, t, i),
                      held |-> Covered(t, i),
                      nested |-> ovthreads[t].left = 1]
        /\ UNCHANGED <<target_attr, scope_locks, rlocks, override_objs, ovthreads>>
        /\ UNCHANGED <<regVars, locVars, tcVars, rhVars, adVars, rcVars>>

NextOverride ==
    \/ WithInstance \/ WithAll \/ Leave \/ LockRead \/ LockAcquire \/ LockStore
    \/ SetThreadId \/ Apply \/ UnsetThreadId \/ Revert \/ ReleaseCount \/ ReleaseLock
    \/ CallTrait

SpecOverride == InitOverride /\ [][NextOverride]_vars

-----------------------------------------------------------------------------
(* Claims on Overridable *)

\* C35: a call of the trait's method runs the overridden behaviour exactly
\* when the calling thread holds an override that is for the instance of the
\* call, whatever overrides other threads hold or have left, and with no
\* thread in a scope or on its way in or out every call runs the target
C35_ThreadScopedOverride ==
    /\ called.thread # NoThread => (called.ran = "_override" <=> called.held)
    /\ (\A t \in Threads : ovthreads[t].scopes = <<>> /\ ovthreads[t].ops = <<>>) =>
          \A t \in Threads, i \in Instances :
              trait_call(target_attr, override_objs, t, i) = "_override_target"

\* the threads that wait in __enter__ for the lock of a scope another thread owns
Blocked ==
    {t \in Threads : /\ NextOp(t, "acquire")
                     /\ rlocks[ovthreads[t].lock].owner \notin {NoThread, t}}

\* C36: a thread that enters an override scope is never made to wait for a
\* thread that holds one: no thread is at the acquire of __enter__ with the
\* lock owned by another thread
C36_EnterDoesNotBlock == Blocked = {}

\* every Override object was made by the thread of the last call
OneThreadOnly == \A o \in 1..Len(override_objs) : override_objs[o].by = called.thread

\* C37: in a program of one thread, with overrides of the trait entered one
\* inside another, a call runs the overridden behaviour as long as a scope
\* that is for its instance has not been left, also after inner scopes have
\* been left, and the target once the outermost has been left
C37_ScopesNest ==
    (called.thread # NoThread /\ OneThreadOnly) =>
        (called.ran = "_override" <=> called.held)

-----------------------------------------------------------------------------
(* SpecReferenceCounted: a program assigns the counted objects and None to  *)
(* the properties of the composers.                                         *)

\* most property assignments of one program
MaxAssignments == 4

InitReferenceCounted ==
    /\ instance_dict = [c \in Composers |-> [p \in ComposerProperties |-> PyNone]]
    /\ composers = [o \in Counted |-> {}]
    /\ unreferenced = <<>>
    /\ assigned = NoAssignment
    /\ CoreIdle
    /\ DeliveryIdle
    /\ OverrideIdle

\* the instances that hold the object as the value of a property
HeldBy(dict, obj) == {c \in Composers : \E p \in ComposerProperties : dict[c][p] = obj}

\* the assignments made so far, which no code counts
Assignments == assigned.n

\* instance.property = value: the PreSet trait _ReferenceCounter is applied,
\* then the value is stored; an exception of the trait leaves the assignment
\* undone
AssignProperty ==
    \E c \in Composers, p \in ComposerProperties, v \in Counted \cup {PyNone} :
        /\ Assignments < MaxAssignments
        /\ LET current == get_current_value(instance_dict, c, p)
               r == ReferenceCounter_apply(instance_dict, composers, c, p, v)
               stored == IF r.exc = "" THEN [instance_dict EXCEPT ![c][p] = v]
                         ELSE instance_dict
           IN  /\ instance_dict' = stored
               /\ composers' = r.composers
               /\ unreferenced' =
                     IF r.unreferenced
                     THEN Append(unreferenced, [obj |-> current, held_by |-> HeldBy(stored, current)])
                     ELSE unreferenced
               /\ assigned' = [instance |-> c, property |-> p, value |-> v, current |-> current,
                               exc |-> r.exc, unreferenced |-> r.unreferenced,
                               before |-> composers, n |-> Assignments + 1]
        /\ UNCHANGED <<regVars, locVars, tcVars, rhVars, adVars, ovVars>>

NextReferenceCounted == AssignProperty

SpecReferenceCounted == InitReferenceCounted /\ [][NextReferenceCounted]_vars

-----------------------------------------------------------------------------
(* Claims on ReferenceCounted *)

\* C38: after any sequence of property assignments, composed_by of a counted
\* object is the set of the instances that hold it as the value of a
\* property and reference_count is the size of that set; no assignment
\* fails, and _on_unreferenced has run in the assignment by which the last
\* holder stopped holding the object
C38_ComposedByIsHolders ==
    /\ \A o \in Counted :
          /\ composed_by(composers, o) = HeldBy(instance_dict, o)
          /\ reference_count(composers, o) = Cardinality(HeldBy(instance_dict, o))
    /\ assigned.exc = ""
    /\ (/\ assigned.current \in Counted
        /\ HeldBy(instance_dict, assigned.current) = {}) => assigned.unreferenced

\* C39: an assignment of the counted object the property already holds
\* leaves composed_by as it was and does not call _on_unreferenced, and every
\* call of _on_unreferenced was made by an assignment after which no
\* instance holds the object
C39_UnreferencedOnlyWhenUnheld ==
    /\ (assigned.current \in Counted /\ assigned.value = assigned.current) =>
          /\ composers = assigned.before
          /\ ~assigned.unreferenced
    /\ \A i \in 1..Len(unreferenced) : unreferenced[i].held_by = {}

====
